---- MODULE Spec2Model ----
(***************************************************************************)
(* external-dns-docker: the plan/diff engine (pkg/plan), the ownership     *)
(* TXT protocol, the fake and RFC2136 providers' ApplyChanges, the         *)
(* controller's reconcile cycle with its readiness flag, its backoff and   *)
(* its Run loop, and the zone lookup of the multi-zone provider.           *)
(*                                                                         *)
(* A DNS name is the sequence of its labels ("app.example.com" is          *)
(* <<"app","example","com">>); the root label "" at the end stands for a   *)
(* trailing dot.  Targets, owner ids and record types are strings.         *)
(***************************************************************************)
EXTENDS Integers, Sequences, FiniteSets, TLC

VARIABLES
    planDesired,   \* plan spec: the desired slice handed to Calculate
    planCurrent,   \* plan spec: the current slice handed to Calculate
    planChanges,   \* plan spec: the change set Calculate returned
    planStore,     \* plan spec: fake.Provider.records after ApplyChanges
    planChanges2,  \* plan spec: Calculate(desired, Records()) after the apply
    planPhase,     \* plan spec: "input", "planned", "applied"
    zone,          \* loop spec: the RRs held by the DNS server
    srcDesired,    \* loop spec: the endpoints the source returns
    ready,         \* loop spec: Controller.ready
    lastResult,    \* loop spec: outcome of the most recent cycle
    lastNoop,      \* loop spec: the most recent cycle planned no change
    everSucceeded, \* loop spec: history, some cycle has succeeded
    foreign,       \* loop spec: history, RRs in the zone before the daemon ran
    dryRun,        \* loop spec: Config.DryRun of the controller
    lastCalls,     \* loop spec: history, the calls of the most recent cycle and their outcomes
    boConfig,      \* backoff spec: the Config handed to controller.New
    boN,           \* backoff spec: the argument consecutiveErrors
    boOut,         \* backoff spec: backoffDuration(n) and backoffDuration(n+1)
    boPhase,       \* backoff spec: "input", "done"
    mzZones,       \* zone spec: ZoneConfig.Zone of each configured zone, in order
    mzName,        \* zone spec: the dnsName handed to zoneFor
    mzBest,        \* zone spec: index of the entry zoneFor returned, 0 for nil
    mzPhase,       \* zone spec: "input", "done"
    ttlEndpoint,   \* ttl spec: the endpoint handed to ApplyChanges as a create
    ttlMin,        \* ttl spec: Config.MinTTL of the provider
    ttlInserted,   \* ttl spec: the RRs the UPDATE message inserts
    ttlPhase,      \* ttl spec: "input", "done"
    maZones,       \* multi spec: MultiProvider.zones
    maChanges,     \* multi spec: the change set handed to ApplyChanges
    maFailing,     \* multi spec: the sub-providers whose calls return an error
    maCalls,       \* multi spec: the sub-provider ApplyChanges calls made, in order
    maErr,         \* multi spec: the error ApplyChanges returned (0 for nil)
    maPhase,       \* multi spec: which call is made and how far it is
    mrResults,     \* multi spec: the results slice of Records
    mrPending,     \* multi spec: the reads of Records that have not completed
    mrOut,         \* multi spec: what Records returned
    cfgMode,       \* config spec: the configuration mode main selects
    cfgZones,      \* config spec: the zones as flags, YAML entries or env groups give them
    cfgFileReadable, \* config spec: os.ReadFile of a TSIG secret file succeeds
    cfgOutcome,    \* config spec: main exits with status 1, or the provider's zone configurations
    cfgPhase,      \* config spec: "input", "done"
    wPc,           \* watch spec: where the task executing Watch is
    wCancelled,    \* watch spec: ctx has been cancelled
    wMsgs,         \* watch spec: events ready on msgs of the current subscription
    wStreamErr,    \* watch spec: errs of the current subscription is ready
    wTimerFired,   \* watch spec: the time.After channel of the outer select is ready
    wSubscriptions,\* watch spec: history, calls of client.Events (counted up to the bound)
    wNotified,     \* watch spec: history, calls of notify (counted up to the bound)
    upOlds,        \* update spec: Changes.UpdateOld handed to ApplyChanges
    upNews,        \* update spec: Changes.UpdateNew handed to ApplyChanges
    upMsg,         \* update spec: the update section of the message ApplyChanges built
    upPhase,       \* update spec: "input", "done"
    stMinTTL,      \* steady spec: Config.MinTTL of the provider
    rcMain,        \* handler spec: where the main task is
    rcWatch,       \* handler spec: where the task executing Watch is
    rcHandlers,    \* handler spec: len(s.handlers)
    rcPending,     \* handler spec: events ready on msgs
    rcEvents,      \* handler spec: history, events the daemon has sent (up to the bound)
    rcOverlap,     \* handler spec: the read of notify in progress overlapped an append
    rcSeen,        \* handler spec: the slice notify ranges over
    once,          \* run spec: Config.Once
    runPc,         \* run spec: where the task executing Run is
    trigger,       \* run spec: what started the cycle in flight
    handlerRegistered, \* run spec: the source holds Run's event handler
    reconcileCh,   \* run spec: number of signals buffered in reconcileCh
    debounceTimers,\* run spec: the time.AfterFunc timers that have not fired
    nextTimer,     \* run spec: nextTimer: created, armed, the duration of the last reset
    nextTick,      \* run spec: number of ticks buffered in nextTimer.C
    consecutiveErrors, \* run spec: the local of Run
    cancelled,     \* run spec: ctx has been cancelled
    runReturn,     \* run spec: the value Run returned, "running" before
    inFlight,      \* run spec: number of reconcile calls that have not returned
    lastCycleErr,  \* run spec: the error the last finished cycle returned
    blockedSends,  \* run spec: timer tasks blocked sending to reconcileCh
    failedSinceSuccess,   \* run spec: history, failed cycles since the last success
    cyclesRun,     \* run spec: history, cycles started (counted up to 2)
    firesSinceNotify,     \* run spec: history, debounce firings since the last notification
    staleFired,    \* run spec: history, a timer armed before the last notification fired
    eventStartsSinceFire, \* run spec: history, event cycles started since the last firing
    firesInCycle,  \* run spec: history, debounce firings during the cycle in flight
    unserved,      \* run spec: history, a notification no cycle has started after
    burstLen       \* run spec: history, notifications of the latest burst (up to 2)

planVars == <<planDesired, planCurrent, planChanges, planStore, planChanges2, planPhase>>
loopVars == <<zone, srcDesired, ready, lastResult, lastNoop, everSucceeded, foreign, dryRun,
              lastCalls>>
ttlVars == <<ttlEndpoint, ttlMin, ttlInserted, ttlPhase>>
multiVars == <<maZones, maChanges, maFailing, maCalls, maErr, maPhase,
               mrResults, mrPending, mrOut>>
configVars == <<cfgMode, cfgZones, cfgFileReadable, cfgOutcome, cfgPhase>>
watchVars == <<wPc, wCancelled, wMsgs, wStreamErr, wTimerFired, wSubscriptions, wNotified>>
updVars == <<upOlds, upNews, upMsg, upPhase>>
raceVars == <<rcMain, rcWatch, rcHandlers, rcPending, rcEvents, rcOverlap, rcSeen>>
lateVars == <<updVars, stMinTTL, raceVars>>
moreVars == <<ttlVars, multiVars, configVars, watchVars, lateVars>>
funcVars == <<boConfig, boN, boOut, boPhase, mzZones, mzName, mzBest, mzPhase, moreVars>>
runVars == <<once, runPc, trigger, handlerRegistered, reconcileCh, debounceTimers, nextTimer,
             nextTick, consecutiveErrors, cancelled, runReturn, inFlight, lastCycleErr,
             blockedSends, failedSinceSuccess, cyclesRun, firesSinceNotify, staleFired,
             eventStartsSinceFire, firesInCycle, unserved, burstLen>>
vars == <<planVars, loopVars, funcVars, runVars>>

(***************************************************************************)
(* Bounds of the model.                                                    *)
(***************************************************************************)
MaxDesired == 2
MaxCurrent == 3
MaxSource == 2

(***************************************************************************)
(* int64 (time.Duration, Endpoint.TTL, Config.MinTTL).  The model holds an *)
(* int64 as four 16-bit limbs, least significant first, in two's           *)
(* complement, so that a multiplication wraps as it does in Go; a uint32   *)
(* (dns.RR_Header.Ttl) is the pair of its two 16-bit limbs.                *)
(***************************************************************************)
LimbBase == 65536

\* The int64 of a number n with 0 <= n < 2^31.
I64(n) == <<n % LimbBase, n \div LimbBase, 0, 0>>

RECURSIVE MulLimbs(_, _, _, _)
MulLimbs(x, k, i, carry) ==
    IF i > 4 THEN <<>>
    ELSE LET p == x[i] * k + carry
         IN <<p % LimbBase>> \o MulLimbs(x, k, i + 1, p \div LimbBase)

\* x * k in int64 for 0 <= k < 2^15; the carry out of the top limb is lost.
I64Mul(x, k) == MulLimbs(x, k, 1, 0)

\* x * time.Duration(1 << shift) in int64.
RECURSIVE I64Shl(_, _)
I64Shl(x, shift) == IF shift = 0 THEN x ELSE I64Shl(I64Mul(x, 2), shift - 1)

I64Negative(x) == x[4] >= 32768

\* a < b on int64.
I64Less(a, b) ==
    IF I64Negative(a) # I64Negative(b) THEN I64Negative(a)
    ELSE \E i \in 1..4 : a[i] < b[i] /\ \A j \in (i + 1)..4 : a[j] = b[j]

\* d <= 0 on int64.
I64NotPositive(d) == I64Negative(d) \/ d = I64(0)

\* uint32(x) of an int64: the upper 32 bits are dropped.
Uint32(x) == <<x[1], x[2]>>

\* int64(x) of a uint32.
Int64OfUint32(x) == <<x[1], x[2], 0, 0>>

(***************************************************************************)
(* pkg/endpoint                                                            *)
(***************************************************************************)
RecordTypeA == "A"
RecordTypeAAAA == "AAAA"
RecordTypeCNAME == "CNAME"
RecordTypeTXT == "TXT"
DefaultTTL == 300

\* endpoint.New: a zero TTL (an int64) is replaced by DefaultTTL.  Labels carry no
\* information any modelled code reads and are left out of the record.
EndpointNew(dnsName, targets, recordType, ttl) ==
    [DNSName |-> dnsName, Targets |-> targets, RecordType |-> recordType,
     TTL |-> IF ttl = I64(0) THEN I64(DefaultTTL) ELSE ttl]

(***************************************************************************)
(* pkg/plan: constants and helpers                                         *)
(***************************************************************************)
\* "external-dns-docker-owner." is one whole label followed by a dot.
ownerPrefix == <<"external-dns-docker-owner">>
DefaultOwnerID == "external-dns-docker"
ownershipTTL == 300

ownershipValue(ownerID) ==
    "heritage=external-dns-docker,external-dns-docker/owner=" \o ownerID

ownershipName(dnsName) == ownerPrefix \o dnsName

\* plan.New: an empty owner id becomes DefaultOwnerID.
PlanNew(ownerID) == IF ownerID = "" THEN DefaultOwnerID ELSE ownerID

\* The owner id the daemon is configured with (Config.OwnerID).
CfgOwnerID == "mine"
planOwnerID == PlanNew(CfgOwnerID)

\* strings.HasPrefix(name, ownerPrefix): the name starts with the owner label
\* and the dot after it, so at least one more label (possibly the root) follows.
HasOwnerPrefix(dnsName) ==
    /\ Len(dnsName) > Len(ownerPrefix)
    /\ SubSeq(dnsName, 1, Len(ownerPrefix)) = ownerPrefix

\* strings.TrimPrefix(name, ownerPrefix)
TrimOwnerPrefix(dnsName) ==
    IF HasOwnerPrefix(dnsName)
    THEN SubSeq(dnsName, Len(ownerPrefix) + 1, Len(dnsName))
    ELSE dnsName

Range(s) == {s[i] : i \in 1..Len(s)}

IsOwnershipTXT(ep) == ep.RecordType = RecordTypeTXT /\ HasOwnerPrefix(ep.DNSName)

\* buildOwnedSet without the comparison of the TXT value: any record under
\* the owner prefix marks its name as owned.
buildOwnedSetAnyValue(ownerID, current) ==
    {TrimOwnerPrefix(current[i].DNSName) : i \in
        {j \in 1..Len(current) :
            /\ current[j].RecordType = RecordTypeTXT
            /\ HasOwnerPrefix(current[j].DNSName)}}

buildOwnedSet(ownerID, current) ==
    {TrimOwnerPrefix(current[i].DNSName) : i \in
        {j \in 1..Len(current) :
            /\ current[j].RecordType = RecordTypeTXT
            /\ HasOwnerPrefix(current[j].DNSName)
            /\ \E k \in 1..Len(current[j].Targets) :
                   current[j].Targets[k] = ownershipValue(ownerID)}}

\* ownershipTXTFor writing the default owner id instead of the plan's.
ownershipTXTForDefaultOwner(ownerID, dnsName) ==
    EndpointNew(ownershipName(dnsName), <<ownershipValue(DefaultOwnerID)>>,
                RecordTypeTXT, I64(ownershipTTL))

ownershipTXTFor(ownerID, dnsName) ==
    EndpointNew(ownershipName(dnsName), <<ownershipValue(ownerID)>>,
                RecordTypeTXT, I64(ownershipTTL))

filterOwnershipTXTs(eps) == SelectSeq(eps, LAMBDA ep : ~IsOwnershipTXT(ep))

\* epKey: DNSName + "|" + RecordType, kept as the pair.
epKey(ep) == <<ep.DNSName, ep.RecordType>>

\* indexEndpoints: a map from key to endpoint, the last duplicate wins.
indexEndpoints(eps) ==
    [k \in {epKey(eps[i]) : i \in 1..Len(eps)} |->
        LET last == CHOOSE i \in 1..Len(eps) :
                        /\ epKey(eps[i]) = k
                        /\ \A j \in 1..Len(eps) : epKey(eps[j]) = k => j <= i
        IN eps[last]]

\* sort.Strings orders byte-wise; the strings the model uses, in that order.
StringOrder ==
    <<"1.2.3.4", "2001:db8::1", "5.6.7.8",
      "heritage=external-dns-docker,external-dns-docker/owner=mine",
      "heritage=external-dns-docker,external-dns-docker/owner=other",
      "not-an-ip", "note">>

StringRank(s) == CHOOSE i \in 1..Len(StringOrder) : StringOrder[i] = s

RECURSIVE InsertSorted(_, _)
InsertSorted(s, x) ==
    IF s = <<>> THEN <<x>>
    ELSE IF StringRank(x) < StringRank(Head(s)) THEN <<x>> \o s
    ELSE <<Head(s)>> \o InsertSorted(Tail(s), x)

RECURSIVE sortedCopy(_)
sortedCopy(s) ==
    IF s = <<>> THEN <<>>
    ELSE InsertSorted(sortedCopy(SubSeq(s, 1, Len(s) - 1)), s[Len(s)])

\* endpointsEqual comparing the targets in the order given, without sorting.
endpointsEqualOrdered(a, b) ==
    IF a.TTL # b.TTL THEN FALSE
    ELSE IF Len(a.Targets) # Len(b.Targets) THEN FALSE
    ELSE \A i \in 1..Len(a.Targets) : a.Targets[i] = b.Targets[i]

endpointsEqual(a, b) ==
    IF a.TTL # b.TTL THEN FALSE
    ELSE IF Len(a.Targets) # Len(b.Targets) THEN FALSE
    ELSE LET as == sortedCopy(a.Targets)
             bs == sortedCopy(b.Targets)
         IN \A i \in 1..Len(as) : as[i] = bs[i]

EmptyChanges == [Create |-> <<>>, UpdateOld |-> <<>>, UpdateNew |-> <<>>, Delete |-> <<>>]

IsEmpty(c) ==
    /\ Len(c.Create) = 0
    /\ Len(c.UpdateOld) = 0
    /\ Len(c.UpdateNew) = 0
    /\ Len(c.Delete) = 0

(***************************************************************************)
(* Go iterates a map in an unspecified order.  The model walks a map in    *)
(* ascending and in descending key order, so every list built by a map     *)
(* walk exists in two orders.                                              *)
(***************************************************************************)
LabelOrder == <<"", "app", "db", "external-dns-docker-owner">>
TypeOrder == <<RecordTypeA, RecordTypeAAAA, RecordTypeCNAME, RecordTypeTXT>>

LabelRank(l) == CHOOSE i \in 1..Len(LabelOrder) : LabelOrder[i] = l
TypeRank(t) == CHOOSE i \in 1..Len(TypeOrder) : TypeOrder[i] = t

RECURSIVE NameRank(_)
NameRank(n) ==
    IF n = <<>> THEN 0
    ELSE NameRank(SubSeq(n, 1, Len(n) - 1)) * (Len(LabelOrder) + 1) + LabelRank(n[Len(n)])

KeyRank(k) == NameRank(k[1]) * (Len(TypeOrder) + 1) + TypeRank(k[2])

RECURSIVE Ascending(_)
Ascending(S) ==
    IF S = {} THEN <<>>
    ELSE LET m == CHOOSE x \in S : \A y \in S : KeyRank(x) <= KeyRank(y)
         IN <<m>> \o Ascending(S \ {m})

Reverse(s) == [i \in 1..Len(s) |-> s[Len(s) + 1 - i]]

MapOrders(S) == {Ascending(S), Reverse(Ascending(S))}

(***************************************************************************)
(* pkg/plan: Plan.Calculate                                                *)
(***************************************************************************)
\* The desired walk without the ownership check before an update.
WalkDesiredStepNoOwnerCheck(ownerID, changes, key, desiredIdx, currentIdx, owned) ==
    LET want == desiredIdx[key] IN
    IF key \notin DOMAIN currentIdx
    THEN [changes EXCEPT !.Create = @ \o <<want, ownershipTXTFor(ownerID, want.DNSName)>>]
    ELSE IF ~endpointsEqual(currentIdx[key], want)
    THEN [changes EXCEPT !.UpdateOld = Append(@, currentIdx[key]),
                         !.UpdateNew = Append(@, want)]
    ELSE changes

\* The desired walk appending to UpdateNew for every owned key, changed or not.
WalkDesiredStepNewAlways(ownerID, changes, key, desiredIdx, currentIdx, owned) ==
    LET want == desiredIdx[key] IN
    IF key \notin DOMAIN currentIdx
    THEN [changes EXCEPT !.Create = @ \o <<want, ownershipTXTFor(ownerID, want.DNSName)>>]
    ELSE IF want.DNSName \notin owned
    THEN changes
    ELSE IF ~endpointsEqual(currentIdx[key], want)
    THEN [changes EXCEPT !.UpdateOld = Append(@, currentIdx[key]),
                         !.UpdateNew = Append(@, want)]
    ELSE [changes EXCEPT !.UpdateNew = Append(@, want)]

\* One iteration of the walk over desiredIdx (step 4).
WalkDesiredStep(ownerID, changes, key, desiredIdx, currentIdx, owned) ==
    LET want == desiredIdx[key] IN
    IF key \notin DOMAIN currentIdx
    THEN [changes EXCEPT !.Create = @ \o <<want, ownershipTXTFor(ownerID, want.DNSName)>>]
    ELSE IF want.DNSName \notin owned
    THEN changes
    ELSE IF ~endpointsEqual(currentIdx[key], want)
    THEN [changes EXCEPT !.UpdateOld = Append(@, currentIdx[key]),
                         !.UpdateNew = Append(@, want)]
    ELSE changes

\* One iteration of the walk over currentIdx (step 5).
WalkCurrentStep(ownerID, changes, key, desiredIdx, currentIdx, owned) ==
    LET have == currentIdx[key] IN
    IF key \in DOMAIN desiredIdx
    THEN changes
    ELSE IF have.DNSName \notin owned
    THEN changes
    ELSE [changes EXCEPT !.Delete = @ \o <<have, ownershipTXTFor(ownerID, have.DNSName)>>]

RECURSIVE WalkDesired(_, _, _, _, _, _)
WalkDesired(ownerID, changes, ord, desiredIdx, currentIdx, owned) ==
    IF ord = <<>> THEN changes
    ELSE WalkDesired(ownerID,
                     WalkDesiredStep(ownerID, changes, Head(ord), desiredIdx, currentIdx, owned),
                     Tail(ord), desiredIdx, currentIdx, owned)

RECURSIVE WalkCurrent(_, _, _, _, _, _)
WalkCurrent(ownerID, changes, ord, desiredIdx, currentIdx, owned) ==
    IF ord = <<>> THEN changes
    ELSE WalkCurrent(ownerID,
                     WalkCurrentStep(ownerID, changes, Head(ord), desiredIdx, currentIdx, owned),
                     Tail(ord), desiredIdx, currentIdx, owned)

\* Calculate with the two map walks in the orders dOrd and cOrd.
Calculate(ownerID, desired, current, dOrd, cOrd) ==
    LET owned == buildOwnedSet(ownerID, current)
        currentIdx == indexEndpoints(filterOwnershipTXTs(current))
        desiredIdx == indexEndpoints(desired)
    IN WalkCurrent(ownerID,
                   WalkDesired(ownerID, EmptyChanges, dOrd, desiredIdx, currentIdx, owned),
                   cOrd, desiredIdx, currentIdx, owned)

DesiredOrders(desired) == MapOrders(DOMAIN indexEndpoints(desired))
CurrentOrders(current) == MapOrders(DOMAIN indexEndpoints(filterOwnershipTXTs(current)))

(***************************************************************************)
(* pkg/provider/fake                                                       *)
(***************************************************************************)
MapPut(m, k, v) == [x \in (DOMAIN m) \cup {k} |-> IF x = k THEN v ELSE m[x]]
MapDel(m, k) == [x \in (DOMAIN m) \ {k} |-> m[x]]

\* fake.New: the store is keyed by name and type, a later duplicate overwrites.
FakeNew(initial) == indexEndpoints(initial)

RECURSIVE FakeCreates(_, _)
FakeCreates(records, eps) ==
    IF eps = <<>> THEN records
    ELSE FakeCreates(MapPut(records, epKey(Head(eps)), Head(eps)), Tail(eps))

RECURSIVE FakeUpdates(_, _, _, _)
FakeUpdates(records, olds, news, i) ==
    IF i > Len(olds) THEN records
    ELSE LET removed == MapDel(records, epKey(olds[i]))
             put == IF i <= Len(news)
                    THEN MapPut(removed, epKey(news[i]), news[i])
                    ELSE removed
         IN FakeUpdates(put, olds, news, i + 1)

RECURSIVE FakeDeletes(_, _)
FakeDeletes(records, eps) ==
    IF eps = <<>> THEN records
    ELSE FakeDeletes(MapDel(records, epKey(Head(eps))), Tail(eps))

FakeApplyChanges(records, changes) ==
    FakeDeletes(
        FakeUpdates(FakeCreates(records, changes.Create),
                    changes.UpdateOld, changes.UpdateNew, 1),
        changes.Delete)

\* fake.Provider.Records: the map's values in the order ord of its keys.
FakeRecords(records, ord) == [i \in 1..Len(ord) |-> records[ord[i]]]

(***************************************************************************)
(* Inputs of the plan specification.                                       *)
(***************************************************************************)
app == <<"app">>
db == <<"db">>

\* The ownership TXT endpoint of a name as an owner's daemon wrote it.
OwnerTXT(ownerID, name) ==
    [DNSName |-> <<"external-dns-docker-owner">> \o name,
     Targets |-> <<"heritage=external-dns-docker,external-dns-docker/owner=" \o ownerID>>,
     RecordType |-> "TXT",
     TTL |-> <<300, 0, 0, 0>>]

\* Endpoints a source can hand in as desired: one key with different targets
\* and TTLs, a second type and a TXT record under the owner prefix.
PlanDesiredPool ==
    { EndpointNew(app, <<"1.2.3.4">>, RecordTypeA, I64(0)),
      EndpointNew(app, <<"1.2.3.4">>, RecordTypeA, I64(60)),
      EndpointNew(app, <<"1.2.3.4", "5.6.7.8">>, RecordTypeA, I64(300)),
      EndpointNew(app, <<"2001:db8::1">>, RecordTypeAAAA, I64(60)),
      OwnerTXT("mine", app) }

\* Endpoints a provider can return as current: managed records, sidecars of
\* this owner and of another owner, and a TXT record without the prefix.
PlanCurrentPool ==
    { EndpointNew(app, <<"1.2.3.4">>, RecordTypeA, I64(300)),
      EndpointNew(app, <<"5.6.7.8", "1.2.3.4">>, RecordTypeA, I64(300)),
      EndpointNew(app, <<"2001:db8::1">>, RecordTypeAAAA, I64(300)),
      OwnerTXT("mine", app),
      OwnerTXT("other", app),
      EndpointNew(app, <<"heritage=external-dns-docker,external-dns-docker/owner=mine">>, RecordTypeTXT, I64(300)) }

SeqsUpTo(S, n) == UNION {[1..k -> S] : k \in 0..n}

\* Values the variables of the other specification keep.
PlanIdle ==
    /\ planDesired = <<>>
    /\ planCurrent = <<>>
    /\ planChanges = EmptyChanges
    /\ planStore = <<>>
    /\ planChanges2 = EmptyChanges
    /\ planPhase = "idle"

LoopIdle ==
    /\ zone = {}
    /\ srcDesired = <<>>
    /\ ready = FALSE
    /\ lastResult = "none"
    /\ lastNoop = FALSE
    /\ everSucceeded = FALSE
    /\ foreign = {}
    /\ dryRun = FALSE
    /\ lastCalls = <<>>

BackoffIdle ==
    /\ boConfig = <<>>
    /\ boN = 0
    /\ boOut = <<>>
    /\ boPhase = "idle"

ZoneIdle ==
    /\ mzZones = <<>>
    /\ mzName = <<>>
    /\ mzBest = 0
    /\ mzPhase = "idle"

TtlIdle ==
    /\ ttlEndpoint = <<>>
    /\ ttlMin = <<0, 0, 0, 0>>
    /\ ttlInserted = {}
    /\ ttlPhase = "idle"

MultiIdle ==
    /\ maZones = <<>>
    /\ maChanges = EmptyChanges
    /\ maFailing = {}
    /\ maCalls = <<>>
    /\ maErr = 0
    /\ maPhase = "idle"
    /\ mrResults = <<>>
    /\ mrPending = {}
    /\ mrOut = <<>>

ConfigIdle ==
    /\ cfgMode = "none"
    /\ cfgZones = <<>>
    /\ cfgFileReadable = FALSE
    /\ cfgOutcome = <<>>
    /\ cfgPhase = "idle"

WatchIdle ==
    /\ wPc = "idle"
    /\ wCancelled = FALSE
    /\ wMsgs = 0
    /\ wStreamErr = FALSE
    /\ wTimerFired = FALSE
    /\ wSubscriptions = 0
    /\ wNotified = 0

UpdIdle ==
    /\ upOlds = <<>>
    /\ upNews = <<>>
    /\ upMsg = <<>>
    /\ upPhase = "idle"

SteadyIdle ==
    /\ stMinTTL = <<0, 0, 0, 0>>

RaceIdle ==
    /\ rcMain = "idle"
    /\ rcWatch = "idle"
    /\ rcHandlers = 0
    /\ rcPending = 0
    /\ rcEvents = 0
    /\ rcOverlap = FALSE
    /\ rcSeen = [kind |-> "none", len |-> 0]

LateIdle ==
    /\ UpdIdle
    /\ SteadyIdle
    /\ RaceIdle

MoreIdle ==
    /\ TtlIdle
    /\ MultiIdle
    /\ ConfigIdle
    /\ WatchIdle
    /\ LateIdle

FuncIdle ==
    /\ BackoffIdle
    /\ ZoneIdle
    /\ MoreIdle

\* nextTimer before time.NewTimer has been called.
NoTimer == [created |-> FALSE, armed |-> FALSE, d |-> <<0, 0, 0, 0>>]

RunIdle ==
    /\ once = FALSE
    /\ runPc = "idle"
    /\ trigger = "none"
    /\ handlerRegistered = FALSE
    /\ reconcileCh = 0
    /\ debounceTimers = <<>>
    /\ nextTimer = NoTimer
    /\ nextTick = 0
    /\ consecutiveErrors = 0
    /\ cancelled = FALSE
    /\ runReturn = "running"
    /\ inFlight = 0
    /\ lastCycleErr = "none"
    /\ blockedSends = 0
    /\ failedSinceSuccess = 0
    /\ cyclesRun = 0
    /\ firesSinceNotify = 0
    /\ staleFired = FALSE
    /\ eventStartsSinceFire = 0
    /\ firesInCycle = 0
    /\ unserved = FALSE
    /\ burstLen = 0

(***************************************************************************)
(* The plan specification: Calculate on bounded inputs, the change set     *)
(* applied to a fake provider loaded with current, and Calculate again on  *)
(* the provider's records.                                                 *)
(***************************************************************************)
PlanInit ==
    /\ planDesired \in SeqsUpTo(PlanDesiredPool, MaxDesired)
    /\ planCurrent \in SeqsUpTo(PlanCurrentPool, MaxCurrent)
    /\ planChanges = EmptyChanges
    /\ planStore = <<>>
    /\ planChanges2 = EmptyChanges
    /\ planPhase = "input"
    /\ LoopIdle
    /\ FuncIdle
    /\ RunIdle

PlanCalculate ==
    /\ planPhase = "input"
    /\ \E dOrd \in DesiredOrders(planDesired), cOrd \in CurrentOrders(planCurrent) :
           planChanges' = Calculate(planOwnerID, planDesired, planCurrent, dOrd, cOrd)
    /\ planPhase' = "planned"
    /\ UNCHANGED <<planDesired, planCurrent, planStore, planChanges2, loopVars, funcVars, runVars>>

PlanApply ==
    /\ planPhase = "planned"
    /\ planStore' = FakeApplyChanges(FakeNew(planCurrent), planChanges)
    /\ planPhase' = "applied"
    /\ UNCHANGED <<planDesired, planCurrent, planChanges, planChanges2, loopVars, funcVars, runVars>>

PlanRecalculate ==
    /\ planPhase = "applied"
    /\ \E rOrd \in MapOrders(DOMAIN planStore) :
           LET current2 == FakeRecords(planStore, rOrd) IN
           \E dOrd \in DesiredOrders(planDesired), cOrd \in CurrentOrders(current2) :
               planChanges2' = Calculate(planOwnerID, planDesired, current2, dOrd, cOrd)
    /\ planPhase' = "replanned"
    /\ UNCHANGED <<planDesired, planCurrent, planChanges, planStore, loopVars, funcVars, runVars>>

PlanNext == PlanCalculate \/ PlanApply \/ PlanRecalculate

PlanSpec == PlanInit /\ [][PlanNext]_vars

(***************************************************************************)
(* Properties of Plan.Calculate                                            *)
(***************************************************************************)
\* The ownership record of name n for the configured owner, written out.
SidecarOf(n) ==
    [DNSName |-> <<"external-dns-docker-owner">> \o n,
     Targets |-> <<"heritage=external-dns-docker,external-dns-docker/owner=mine">>,
     RecordType |-> "TXT",
     TTL |-> <<300, 0, 0, 0>>]

\* current holds a TXT record named "external-dns-docker-owner."+n that
\* carries the configured owner's value among its targets.
HasSidecarIn(current, n) ==
    \E i \in 1..Len(current) :
        /\ current[i].RecordType = "TXT"
        /\ current[i].DNSName = <<"external-dns-docker-owner">> \o n
        /\ "heritage=external-dns-docker,external-dns-docker/owner=mine" \in Range(current[i].Targets)

Occurrences(s, x) == Cardinality({i \in 1..Len(s) : s[i] = x})

SameMultiset(s, t) ==
    \A x \in Range(s) \cup Range(t) : Occurrences(s, x) = Occurrences(t, x)

KeysOf(list) == {epKey(list[i]) : i \in 1..Len(list)}

PlanDone == planPhase \in {"planned", "applied", "replanned"}

\* C2: every non-sidecar endpoint in delete or updateOld has a name N for
\* which current holds a TXT record named "external-dns-docker-owner."+N
\* whose targets include the configured owner's ownership value.
C2_TouchedOnlyIfOwned ==
    PlanDone =>
        \A e \in Range(planChanges.Delete) \cup Range(planChanges.UpdateOld) :
            ~IsOwnershipTXT(e) => HasSidecarIn(planCurrent, e.DNSName)

\* C2 witness: a plan that deletes one owned record and updates another,
\* next to a sidecar of another owner in current.
C2_Witness ==
    /\ planPhase = "planned"
    /\ Len(planChanges.Delete) > 0
    /\ \E i \in 1..Len(planCurrent) : planCurrent[i] = OwnerTXT("other", app)
    /\ \E i \in 1..Len(planCurrent) : planCurrent[i] = OwnerTXT("mine", app)

\* C4: Calculate on the records of the provider the first change set was
\* applied to yields an empty change set.
C4_PlanIdempotent ==
    planPhase = "replanned" => IsEmpty(planChanges2)

\* C5: updateOld and updateNew have the same length and agree on
\* (dnsName, recordType) at every index.
C5_UpdatePairsAligned ==
    PlanDone =>
        /\ Len(planChanges.UpdateOld) = Len(planChanges.UpdateNew)
        /\ \A i \in 1..Len(planChanges.UpdateOld) :
               /\ i <= Len(planChanges.UpdateNew)
               /\ planChanges.UpdateOld[i].DNSName = planChanges.UpdateNew[i].DNSName
               /\ planChanges.UpdateOld[i].RecordType = planChanges.UpdateNew[i].RecordType

\* C5 witness: a plan with two update pairs.
C5_Witness ==
    /\ planPhase = "planned"
    /\ Len(planChanges.UpdateOld) = 2
    /\ planChanges.UpdateOld[1].RecordType # planChanges.UpdateOld[2].RecordType

\* In list, every odd position holds an endpoint of from and the position
\* after it the sidecar of that endpoint's name.
PairedWithSidecar(list, from) ==
    /\ Len(list) % 2 = 0
    /\ \A i \in 1..Len(list) :
           i % 2 = 1 =>
               /\ list[i] \in Range(from)
               /\ list[i + 1] = SidecarOf(list[i].DNSName)

\* C6: each managed endpoint Calculate appends to create (key absent from
\* current) or to delete (name owned, key absent from desired) is followed in
\* that list by the TXT sidecar of its name, with the single ownership value
\* as target and TTL 300; every such endpoint is appended.
C6_SidecarAppendedWithRecord ==
    PlanDone =>
        LET currentIdx == indexEndpoints(filterOwnershipTXTs(planCurrent))
            desiredIdx == indexEndpoints(planDesired)
        IN /\ PairedWithSidecar(planChanges.Create, planDesired)
           /\ PairedWithSidecar(planChanges.Delete, planCurrent)
           /\ \A k \in DOMAIN desiredIdx \ DOMAIN currentIdx :
                  \E i \in 1..Len(planChanges.Create) :
                      i % 2 = 1 /\ planChanges.Create[i] = desiredIdx[k]
           /\ \A k \in DOMAIN currentIdx \ DOMAIN desiredIdx :
                  HasSidecarIn(planCurrent, k[1]) =>
                      \E i \in 1..Len(planChanges.Delete) :
                          i % 2 = 1 /\ planChanges.Delete[i] = currentIdx[k]

\* C6 witness: one plan creates a record and deletes another.
C6_Witness ==
    /\ planPhase = "planned"
    /\ Len(planChanges.Create) = 2
    /\ Len(planChanges.Delete) = 2
    /\ planChanges.Create[2] = planChanges.Delete[2]

\* C7: for a key indexed in both desired and current whose name is owned,
\* Calculate emits exactly one (updateOld, updateNew) pair for the key, and
\* no create or delete of it, iff the TTLs or the target multisets differ.
C7_UpdateIffDiffers ==
    PlanDone =>
        LET currentIdx == indexEndpoints(filterOwnershipTXTs(planCurrent))
            desiredIdx == indexEndpoints(planDesired)
        IN \A k \in DOMAIN desiredIdx \cap DOMAIN currentIdx :
               HasSidecarIn(planCurrent, k[1]) =>
                   LET want == desiredIdx[k]
                       have == currentIdx[k]
                       differ == \/ want.TTL # have.TTL
                                 \/ ~SameMultiset(want.Targets, have.Targets)
                       pairs == {i \in 1..Len(planChanges.UpdateOld) :
                                     epKey(planChanges.UpdateOld[i]) = k}
                   IN /\ k \notin KeysOf(planChanges.Create)
                      /\ k \notin KeysOf(planChanges.Delete)
                      /\ differ <=> Cardinality(pairs) = 1
                      /\ ~differ => pairs = {}
                      /\ \A i \in pairs :
                             /\ planChanges.UpdateOld[i] = have
                             /\ planChanges.UpdateNew[i] = want

\* C7 witness: an owned key whose desired targets are a permutation of the
\* current ones, and no update is planned.
C7_Witness ==
    /\ planPhase = "planned"
    /\ HasSidecarIn(planCurrent, app)
    /\ \E i \in 1..Len(planDesired), j \in 1..Len(planCurrent) :
           /\ epKey(planDesired[i]) = epKey(planCurrent[j])
           /\ planDesired[i].Targets # planCurrent[j].Targets
           /\ SameMultiset(planDesired[i].Targets, planCurrent[j].Targets)
           /\ Len(planDesired) = 1
    /\ Len(planChanges.UpdateOld) = 0

\* C8: a desired key that is indexed in current under a name without an
\* ownership sidecar appears in no list of the change set, and every sidecar
\* of that name in create was appended for a created record of another key.
C8_ForeignKeyBlocked ==
    PlanDone =>
        LET currentIdx == indexEndpoints(filterOwnershipTXTs(planCurrent))
            desiredIdx == indexEndpoints(planDesired)
        IN \A k \in DOMAIN desiredIdx \cap DOMAIN currentIdx :
               ~HasSidecarIn(planCurrent, k[1]) =>
                   /\ k \notin KeysOf(planChanges.Create)
                   /\ k \notin KeysOf(planChanges.UpdateOld)
                   /\ k \notin KeysOf(planChanges.UpdateNew)
                   /\ k \notin KeysOf(planChanges.Delete)
                   /\ \A i \in 1..Len(planChanges.Create) :
                          (i % 2 = 0 /\ planChanges.Create[i] = SidecarOf(k[1])) =>
                              /\ planChanges.Create[i - 1].DNSName = k[1]
                              /\ epKey(planChanges.Create[i - 1]) # k

\* C8 witness: desired asks for other targets of a record that exists in
\* current without a sidecar of this owner, and nothing is planned.
C8_Witness ==
    /\ planPhase = "planned"
    /\ planDesired = <<EndpointNew(app, <<"1.2.3.4">>, RecordTypeA, I64(60))>>
    /\ \E j \in 1..Len(planCurrent) :
           planCurrent[j] = EndpointNew(app, <<"1.2.3.4">>, RecordTypeA, I64(300))
    /\ \E j \in 1..Len(planCurrent) : planCurrent[j] = OwnerTXT("other", app)
    /\ ~HasSidecarIn(planCurrent, app)
    /\ IsEmpty(planChanges)

\* The change set applied to the store in the order of the RFC2136 provider:
\* deletes, then update pairs, then creates.
DeletesFirst(records, changes) ==
    FakeCreates(
        FakeUpdates(FakeDeletes(records, changes.Delete),
                    changes.UpdateOld, changes.UpdateNew, 1),
        changes.Create)

\* C32: no change set of Calculate holds the same (dnsName, recordType) in
\* both create and delete, so the records after the change set do not depend
\* on whether deletes are applied before creates or creates before deletes.
C32_CreateAndDeleteDisjoint ==
    PlanDone =>
        /\ KeysOf(planChanges.Create) \cap KeysOf(planChanges.Delete) = {}
        /\ DeletesFirst(FakeNew(planCurrent), planChanges)
               = FakeApplyChanges(FakeNew(planCurrent), planChanges)

(***************************************************************************)
(* pkg/provider/rfc2136                                                    *)
(*                                                                         *)
(* An RR is [Name, Rrtype, Rdata, Ttl]: Name is the FQDN, Rdata the        *)
(* sequence of strings of the record (an address, a host name followed by  *)
(* its trailing dot, or the strings of a TXT record).                      *)
(***************************************************************************)
\* Config.MinTTL of the provider (0 disables the floor).
CfgMinTTL == 0

IPv4Strings == {"1.2.3.4", "5.6.7.8"}
IPv6Strings == {"2001:db8::1"}

\* net.ParseIP(target).To4() # nil
ParsesAsIPv4(target) == target \in IPv4Strings
\* net.ParseIP(target) # nil
ParsesAsIP(target) == target \in IPv4Strings \cup IPv6Strings

\* dns.Fqdn
Fqdn(name) ==
    IF Len(name) > 0 /\ name[Len(name)] = "" THEN name ELSE Append(name, "")

\* strings.TrimSuffix(name, ".")
TrimDot(name) ==
    IF Len(name) > 0 /\ name[Len(name)] = "" THEN SubSeq(name, 1, Len(name) - 1) ELSE name

\* effectiveTTL on int64: the floor applies when MinTTL is positive.
effectiveTTL(minTTL, ttl) ==
    IF I64Less(I64(0), minTTL) /\ I64Less(ttl, minTTL) THEN minTTL ELSE ttl

\* Whether endpointToRRs can convert one target of an endpoint of this type.
TargetConverts(recordType, target) ==
    CASE recordType = RecordTypeA -> ParsesAsIPv4(target)
      [] recordType = RecordTypeAAAA -> ParsesAsIP(target)
      [] recordType = RecordTypeCNAME -> TRUE
      [] recordType = RecordTypeTXT -> TRUE
      [] OTHER -> FALSE

\* endpointToRRs: one RR per target, or an error at the first target that
\* does not convert.
endpointToRRs(minTTL, ep) ==
    IF \E i \in 1..Len(ep.Targets) : ~TargetConverts(ep.RecordType, ep.Targets[i])
    THEN [err |-> TRUE, rrs |-> <<>>]
    ELSE [err |-> FALSE,
          rrs |-> [i \in 1..Len(ep.Targets) |->
                     [Name |-> Fqdn(ep.DNSName),
                      Rrtype |-> ep.RecordType,
                      Rdata |-> IF ep.RecordType = RecordTypeCNAME
                                THEN <<ep.Targets[i], ".">>
                                ELSE <<ep.Targets[i]>>,
                      Ttl |-> Uint32(effectiveTTL(minTTL, ep.TTL))]]]

\* rrToEndpoint for the record types it supports.
rrToEndpoint(rr) ==
    EndpointNew(TrimDot(rr.Name),
                IF rr.Rrtype = RecordTypeCNAME THEN <<rr.Rdata[1]>> ELSE rr.Rdata,
                rr.Rrtype, Int64OfUint32(rr.Ttl))

RemoveOps(rrs) == [i \in 1..Len(rrs) |-> [op |-> "remove", rr |-> rrs[i]]]
InsertOps(rrs) == [i \in 1..Len(rrs) |-> [op |-> "insert", rr |-> rrs[i]]]

\* The update section for the deletes: an endpoint that does not convert is
\* skipped.
RECURSIVE DeleteSection(_, _)
DeleteSection(minTTL, eps) ==
    IF eps = <<>> THEN <<>>
    ELSE LET c == endpointToRRs(minTTL, Head(eps)) IN
         (IF c.err THEN <<>> ELSE RemoveOps(c.rrs)) \o DeleteSection(minTTL, Tail(eps))

\* The update section for the update pairs: remove old, insert new.
RECURSIVE UpdateSection(_, _, _, _)
UpdateSection(minTTL, olds, news, i) ==
    IF i > Len(olds) THEN <<>>
    ELSE LET o == endpointToRRs(minTTL, olds[i])
             rest == UpdateSection(minTTL, olds, news, i + 1)
         IN IF o.err THEN rest
            ELSE IF i <= Len(news)
            THEN LET n == endpointToRRs(minTTL, news[i]) IN
                 IF n.err THEN RemoveOps(o.rrs) \o rest
                 ELSE RemoveOps(o.rrs) \o InsertOps(n.rrs) \o rest
            ELSE RemoveOps(o.rrs) \o rest

\* The update section for the creates.
RECURSIVE CreateSection(_, _)
CreateSection(minTTL, eps) ==
    IF eps = <<>> THEN <<>>
    ELSE LET c == endpointToRRs(minTTL, Head(eps)) IN
         (IF c.err THEN <<>> ELSE InsertOps(c.rrs)) \o CreateSection(minTTL, Tail(eps))

\* The UPDATE message ApplyChanges builds: deletes, updates, creates.
UpdateMessage(minTTL, changes) ==
    DeleteSection(minTTL, changes.Delete)
        \o UpdateSection(minTTL, changes.UpdateOld, changes.UpdateNew, 1)
        \o CreateSection(minTTL, changes.Create)

SameRR(a, b) == a.Name = b.Name /\ a.Rrtype = b.Rrtype /\ a.Rdata = b.Rdata

\* The server's handling of an accepted UPDATE (RFC 2136 3.4.2): a removal
\* deletes the RR with that name, type and data, an insertion adds the RR
\* and replaces one with the same name, type and data.
RECURSIVE ServerApply(_, _)
ServerApply(rrs, ops) ==
    IF ops = <<>> THEN rrs
    ELSE LET without == {z \in rrs : ~SameRR(z, Head(ops).rr)} IN
         ServerApply(IF Head(ops).op = "remove" THEN without
                     ELSE without \cup {Head(ops).rr},
                     Tail(ops))

InsertedRRs(ops) == {ops[i].rr : i \in {j \in 1..Len(ops) : ops[j].op = "insert"}}

RRRank(rr) ==
    (KeyRank(<<rr.Name, rr.Rrtype>>) * (Len(StringOrder) + 1) + StringRank(rr.Rdata[1])) * 2
        + (IF rr.Ttl = Uint32(I64(DefaultTTL)) THEN 0 ELSE 1)

RECURSIVE AscendingRRs(_)
AscendingRRs(S) ==
    IF S = {} THEN <<>>
    ELSE LET m == CHOOSE x \in S : \A y \in S : RRRank(x) <= RRRank(y)
         IN <<m>> \o AscendingRRs(S \ {m})

\* The orders in which the zone transfer delivers the RRs.
TransferOrders(rrs) == {AscendingRRs(rrs), Reverse(AscendingRRs(rrs))}

\* Provider.Records over a transfer that delivers the RRs in the order ord.
ProviderRecords(ord) == [i \in 1..Len(ord) |-> rrToEndpoint(ord[i])]

\* An ApplyChanges that returns an error when an endpoint does not convert.
ProviderApplyChangesAbortsOnSkip(rrs, minTTL, changes, exchangeErr) ==
    LET all == changes.Create \o changes.UpdateOld \o changes.UpdateNew \o changes.Delete
    IN IF IsEmpty(changes) THEN [err |-> FALSE, rrs |-> rrs, inserted |-> {}]
       ELSE IF exchangeErr \/ \E i \in 1..Len(all) : endpointToRRs(minTTL, all[i]).err
       THEN [err |-> TRUE, rrs |-> rrs, inserted |-> {}]
       ELSE [err |-> FALSE,
             rrs |-> ServerApply(rrs, UpdateMessage(minTTL, changes)),
             inserted |-> InsertedRRs(UpdateMessage(minTTL, changes))]

\* Provider.ApplyChanges: nothing is sent for an empty change set; otherwise
\* the message is exchanged and takes effect unless the exchange fails or the
\* server answers with a non-success rcode (exchangeErr).
ProviderApplyChanges(rrs, minTTL, changes, exchangeErr) ==
    IF IsEmpty(changes) THEN [err |-> FALSE, rrs |-> rrs, inserted |-> {}]
    ELSE IF exchangeErr THEN [err |-> TRUE, rrs |-> rrs, inserted |-> {}]
    ELSE [err |-> FALSE,
          rrs |-> ServerApply(rrs, UpdateMessage(minTTL, changes)),
          inserted |-> InsertedRRs(UpdateMessage(minTTL, changes))]

(***************************************************************************)
(* pkg/controller                                                          *)
(***************************************************************************)
\* Config.DryRun, read by reconcile.
CfgDryRun == dryRun

\* Controller.IsReady
IsReady == ready

\* The deferred function storing the outcome of the cycle in ready.
ReadyAfterStoresOutcome(readyBefore, retErr) == retErr = "nil"

\* The deferred function storing true in ready whatever the outcome.
ReadyAfterEveryCycle(readyBefore, retErr) == TRUE

\* The deferred function of reconcile: a nil error stores true in ready,
\* an error stores nothing.
ReadyAfter(readyBefore, retErr) ==
    IF retErr = "nil" THEN TRUE ELSE readyBefore

\* The error reconcile returns, from the failures of its three I/O calls.
ReconcileError(srcErr, recErr, applyErr, changes) ==
    IF srcErr THEN "fetch desired endpoints"
    ELSE IF recErr THEN "fetch current records"
    ELSE IF IsEmpty(changes) THEN "nil"
    ELSE IF CfgDryRun THEN "nil"
    ELSE IF applyErr THEN "apply changes"
    ELSE "nil"

\* reconcile calling ApplyChanges whatever cfg.DryRun says.
ReachesApplyIgnoringDryRun(srcErr, recErr, changes) ==
    ~srcErr /\ ~recErr /\ ~IsEmpty(changes)

\* Whether reconcile reaches the call of ApplyChanges.
ReachesApply(srcErr, recErr, changes) ==
    ~srcErr /\ ~recErr /\ ~IsEmpty(changes) /\ ~CfgDryRun

\* A reconcile that fetches the current records although the fetch of the
\* desired endpoints failed.
ReconcileCallsFetchesBoth(srcErr, recErr, applyErr, changes) ==
    IF srcErr THEN <<[call |-> "Endpoints", err |-> TRUE], [call |-> "Records", err |-> recErr]>>
    ELSE IF recErr
    THEN <<[call |-> "Endpoints", err |-> FALSE], [call |-> "Records", err |-> TRUE]>>
    ELSE <<[call |-> "Endpoints", err |-> FALSE], [call |-> "Records", err |-> FALSE],
           [call |-> "Calculate", err |-> FALSE]>>
         \o (IF IsEmpty(changes) \/ CfgDryRun THEN <<>>
             ELSE <<[call |-> "ApplyChanges", err |-> applyErr]>>)

\* The calls reconcile makes, in order, each with whether it returned an
\* error.
ReconcileCalls(srcErr, recErr, applyErr, changes) ==
    IF srcErr THEN <<[call |-> "Endpoints", err |-> TRUE]>>
    ELSE IF recErr
    THEN <<[call |-> "Endpoints", err |-> FALSE], [call |-> "Records", err |-> TRUE]>>
    ELSE IF IsEmpty(changes)
    THEN <<[call |-> "Endpoints", err |-> FALSE], [call |-> "Records", err |-> FALSE],
           [call |-> "Calculate", err |-> FALSE]>>
    ELSE IF CfgDryRun
    THEN <<[call |-> "Endpoints", err |-> FALSE], [call |-> "Records", err |-> FALSE],
           [call |-> "Calculate", err |-> FALSE]>>
    ELSE <<[call |-> "Endpoints", err |-> FALSE], [call |-> "Records", err |-> FALSE],
           [call |-> "Calculate", err |-> FALSE], [call |-> "ApplyChanges", err |-> applyErr]>>

(***************************************************************************)
(* Inputs of the loop specification.                                       *)
(***************************************************************************)
\* RRs other parties keep in the zone: an address record and the sidecar of
\* another owner.
ForeignPool ==
    { [Name |-> <<"app", "">>, Rrtype |-> RecordTypeA, Rdata |-> <<"1.2.3.4">>, Ttl |-> <<300, 0>>],
      [Name |-> <<"external-dns-docker-owner", "app", "">>, Rrtype |-> RecordTypeTXT,
       Rdata |-> <<"heritage=external-dns-docker,external-dns-docker/owner=other">>, Ttl |-> <<300, 0>>] }

\* Endpoints the Docker source derives from container labels: one target
\* each, the type inferred or given, here also an A record whose target is
\* not an address.
LoopDesiredPool ==
    { EndpointNew(app, <<"1.2.3.4">>, RecordTypeA, I64(0)),
      EndpointNew(app, <<"5.6.7.8">>, RecordTypeA, I64(300)),
      EndpointNew(app, <<"2001:db8::1">>, RecordTypeAAAA, I64(300)),
      EndpointNew(db, <<"not-an-ip">>, RecordTypeA, I64(300)) }

(***************************************************************************)
(* The loop specification: the source's endpoints change at any time, and  *)
(* each reconcile cycle runs to its end in one step.                       *)
(***************************************************************************)
LoopInit ==
    /\ zone \in SUBSET ForeignPool
    /\ foreign = zone
    /\ srcDesired = <<>>
    /\ ready = FALSE
    /\ lastResult = "none"
    /\ lastNoop = FALSE
    /\ everSucceeded = FALSE
    /\ dryRun \in BOOLEAN
    /\ lastCalls = <<>>
    /\ PlanIdle
    /\ FuncIdle
    /\ RunIdle

\* A labelled container starts: the source lists one endpoint more.
ContainerStart ==
    /\ Len(srcDesired) < MaxSource
    /\ \E ep \in LoopDesiredPool : srcDesired' = Append(srcDesired, ep)
    /\ UNCHANGED <<zone, ready, lastResult, lastNoop, everSucceeded, foreign, dryRun,
                   lastCalls, planVars, funcVars, runVars>>

\* A container stops: the source no longer lists its endpoint.
ContainerStop ==
    /\ \E i \in 1..Len(srcDesired) :
           srcDesired' = SubSeq(srcDesired, 1, i - 1) \o SubSeq(srcDesired, i + 1, Len(srcDesired))
    /\ UNCHANGED <<zone, ready, lastResult, lastNoop, everSucceeded, foreign, dryRun,
                   lastCalls, planVars, funcVars, runVars>>

\* The I/O call of a cycle that fails, if any.
Faults == {"none", "source", "records", "apply"}

\* Controller.reconcile against a provider whose Config.MinTTL is minTTL:
\* fetch desired, fetch current, plan, apply.
ReconcileUnder(minTTL) ==
    \E fault \in Faults :
    \E tOrd \in TransferOrders(zone) :
        LET desired == srcDesired
            current == ProviderRecords(tOrd)
            srcErr == fault = "source"
            recErr == fault = "records"
            applyErr == fault = "apply"
        IN \E dOrd \in DesiredOrders(desired), cOrd \in CurrentOrders(current) :
               LET changes == Calculate(planOwnerID, desired, current, dOrd, cOrd)
                   retErr == ReconcileError(srcErr, recErr, applyErr, changes)
                   result == IF ReachesApply(srcErr, recErr, changes)
                             THEN ProviderApplyChanges(zone, minTTL, changes, applyErr)
                             ELSE [err |-> FALSE, rrs |-> zone, inserted |-> {}]
               IN /\ zone' = result.rrs
                  /\ ready' = ReadyAfter(ready, retErr)
                  /\ lastResult' = IF retErr = "nil" THEN "success" ELSE "error"
                  /\ lastNoop' = (~srcErr /\ ~recErr /\ IsEmpty(changes))
                  /\ everSucceeded' = (everSucceeded \/ retErr = "nil")
                  /\ lastCalls' = ReconcileCalls(srcErr, recErr, applyErr, changes)
                  /\ UNCHANGED <<srcDesired, foreign, dryRun, planVars, funcVars, runVars>>

\* Controller.reconcile with the provider of the loop specification.
Reconcile == ReconcileUnder(I64(CfgMinTTL))

LoopNext == ContainerStart \/ ContainerStop \/ Reconcile

Spec == LoopInit /\ [][LoopNext]_vars

(***************************************************************************)
(* Properties of the reconcile cycles                                      *)
(***************************************************************************)
IsSidecarRR(rr) == rr.Rrtype = "TXT" /\ HasOwnerPrefix(TrimDot(rr.Name))

\* C1: a record that was in the zone before the daemon ran, without an
\* ownership sidecar of the configured owner, is still present and unchanged
\* after every reconcile cycle.
C1_ForeignRecordsUntouched ==
    foreign \subseteq zone

\* C3: every ownership sidecar the daemon wrote for a name N is in the zone
\* together with at least one record named N that is not a sidecar.
C3_SidecarNeverAlone ==
    \A rr \in zone \ foreign :
        IsSidecarRR(rr) =>
            \E m \in zone :
                /\ ~IsSidecarRR(m)
                /\ m.Name = Fqdn(TrimOwnerPrefix(TrimDot(rr.Name)))

C10_NotReadyBeforeFirstSuccess ==
    /\ ~everSucceeded => ~IsReady
    /\ lastResult = "success" => IsReady

\* C10 witness: a cycle that planned no change has just succeeded, the zone
\* is as the daemon found it, and the controller reports ready.
C10_Witness ==
    /\ lastResult = "success"
    /\ lastNoop
    /\ IsReady
    /\ zone = foreign

\* C14: with dryRun set no cycle calls ApplyChanges, whatever the desired
\* and current state: the zone is left as it is, and a cycle whose two
\* fetches succeed returns nil.
C14_DryRunNeverApplies ==
    /\ [][dryRun => zone' = zone]_vars
    /\ [](dryRun =>
            \A tOrd \in TransferOrders(zone) :
                LET current == ProviderRecords(tOrd)
                IN \A dOrd \in DesiredOrders(srcDesired), cOrd \in CurrentOrders(current) :
                       LET changes == Calculate(planOwnerID, srcDesired, current, dOrd, cOrd)
                       IN /\ ~ReachesApply(FALSE, FALSE, changes)
                          /\ \A applyErr \in BOOLEAN :
                                 ReconcileError(FALSE, FALSE, applyErr, changes) = "nil")

\* A dry-run cycle that planned changes has succeeded and the zone is as it
\* was before the daemon ran.
C14_Witness ==
    /\ dryRun
    /\ srcDesired # <<>>
    /\ lastResult = "success"
    /\ ~lastNoop
    /\ IsReady
    /\ zone = foreign

\* The operations op of all RRs of the endpoint are in the message, if the
\* endpoint converts.
OpsIncluded(msg, op, ep) ==
    LET c == endpointToRRs(I64(CfgMinTTL), ep)
    IN ~c.err => \A k \in 1..Len(c.rrs) :
                     \E q \in 1..Len(msg) : msg[q] = [op |-> op, rr |-> c.rrs[k]]

CycleSteps == <<"Endpoints", "Records", "Calculate", "ApplyChanges">>

\* C28: within one cycle the steps run in the order Source.Endpoints,
\* Provider.Records, plan, Provider.ApplyChanges; no step runs after one
\* that failed: Records is not called if Endpoints errors, ApplyChanges is
\* not called if Records errors or if the planned change set is empty.
C28_StepsInOrderStopAtFailure ==
    lastResult # "none" =>
        /\ Len(lastCalls) \in 1..4
        /\ \A i \in 1..Len(lastCalls) : lastCalls[i].call = CycleSteps[i]
        /\ \A i \in 1..Len(lastCalls) : lastCalls[i].err => i = Len(lastCalls)
        /\ (lastNoop => Len(lastCalls) = 3)
        /\ (Len(lastCalls) < 3 => lastCalls[Len(lastCalls)].err)
        /\ (lastResult = "success" <=> \A i \in 1..Len(lastCalls) : ~lastCalls[i].err)

\* The fetch of the current records failed in the last cycle and no step
\* followed it.
C28_Witness ==
    /\ lastResult = "error"
    /\ Len(lastCalls) = 2
    /\ lastCalls[2] = [call |-> "Records", err |-> TRUE]

(***************************************************************************)
(* time.Duration constants                                                 *)
(***************************************************************************)
Nanosecond == I64(1)
Second == I64Mul(I64Mul(I64Mul(Nanosecond, 1000), 1000), 1000)
Minute == I64Mul(Second, 60)
Hour == I64Mul(Minute, 60)

(***************************************************************************)
(* pkg/controller: Config defaults and the backoff                         *)
(***************************************************************************)
\* Config.applyDefaults: zero and negative durations become the defaults.
applyDefaults(c) ==
    [c EXCEPT !.Interval = IF I64NotPositive(@) THEN I64Mul(Second, 60) ELSE @,
              !.DebounceDuration = IF I64NotPositive(@) THEN I64Mul(Second, 5) ELSE @,
              !.BackoffBase = IF I64NotPositive(@) THEN I64Mul(Second, 5) ELSE @,
              !.BackoffMax = IF I64NotPositive(@) THEN I64Mul(Minute, 5) ELSE @]

\* The cfg field of the Controller that controller.New builds from c.
NewCfg(c) == applyDefaults(c)

\* Controller.backoffDuration for the configuration cfg.
backoffDuration(cfg, n) ==
    LET shift0 == n - 1
        shift1 == IF shift0 < 0 THEN 0 ELSE shift0
        shift == IF shift1 > 20 THEN 20 ELSE shift1
        d == I64Shl(cfg.BackoffBase, shift)
    IN IF I64Less(cfg.BackoffMax, d) THEN cfg.BackoffMax ELSE d

(***************************************************************************)
(* The backoff specification: backoffDuration on bounded configurations.   *)
(***************************************************************************)
MaxFailures == 22

\* -1ns
MinusOne == <<65535, 65535, 65535, 65535>>

BackoffBasePool == {I64(0), MinusOne, I64Mul(Second, 5), I64Mul(Minute, 10), I64Mul(Hour, 3)}
BackoffMaxPool == {I64(0), I64Mul(Minute, 5), I64Mul(Hour, 24)}

BackoffInit ==
    /\ boConfig \in [Interval : {I64(0)}, DebounceDuration : {I64(0)},
                     BackoffBase : BackoffBasePool, BackoffMax : BackoffMaxPool]
    /\ boN \in 1..MaxFailures
    /\ boOut = <<>>
    /\ boPhase = "input"
    /\ ZoneIdle
    /\ MoreIdle
    /\ PlanIdle
    /\ LoopIdle
    /\ RunIdle

\* backoffDuration(n) and backoffDuration(n+1) of the controller New builds.
BackoffCompute ==
    /\ boPhase = "input"
    /\ boOut' = <<backoffDuration(NewCfg(boConfig), boN), backoffDuration(NewCfg(boConfig), boN + 1)>>
    /\ boPhase' = "done"
    /\ UNCHANGED <<boConfig, boN, mzZones, mzName, mzBest, mzPhase, moreVars, planVars, loopVars, runVars>>

BackoffNext == BackoffCompute

BackoffSpec == BackoffInit /\ [][BackoffNext]_vars

(***************************************************************************)
(* Properties of backoffDuration                                           *)
(***************************************************************************)
\* a <= b on int64 durations.
DurationLeq(a, b) == a = b \/ I64Less(a, b)

\* C12: for every configuration after defaults and every n >= 1,
\* backoffDuration(1) is backoffBase, backoffDuration(n+1) is at least
\* backoffDuration(n), and backoffDuration(n) is at most backoffMax.
C12_BackoffBounds ==
    boPhase = "done" =>
        /\ (boN = 1 => boOut[1] = NewCfg(boConfig).BackoffBase)
        /\ DurationLeq(boOut[1], boOut[2])
        /\ DurationLeq(boOut[1], NewCfg(boConfig).BackoffMax)

\* The smaller of two int64 durations.
DurationMin(a, b) == IF I64Less(a, b) THEN a ELSE b

\* C38: for every n >= 1 and every positive backoffBase and backoffMax,
\* backoffDuration(n) is positive and lies between min(backoffBase,
\* backoffMax) and backoffMax inclusive; the product never wraps around.
C38_BackoffPositiveAndBounded ==
    boPhase = "done" =>
        LET cfg == NewCfg(boConfig)
        IN /\ I64Less(I64(0), boOut[1])
           /\ DurationLeq(DurationMin(cfg.BackoffBase, cfg.BackoffMax), boOut[1])
           /\ DurationLeq(boOut[1], cfg.BackoffMax)

(***************************************************************************)
(* pkg/provider/rfc2136: the multi-zone provider.  zoneFor compares        *)
(* strings character by character, so here a string is the sequence of its *)
(* characters: "b.a" is <<"b", ".", "a">>.                                 *)
(***************************************************************************)
\* strings.TrimSuffix(s, ".")
TrimSuffixDot(s) ==
    IF Len(s) > 0 /\ s[Len(s)] = "." THEN SubSeq(s, 1, Len(s) - 1) ELSE s

\* strings.HasSuffix(s, suffix)
HasSuffix(s, suffix) ==
    /\ Len(s) >= Len(suffix)
    /\ SubSeq(s, Len(s) - Len(suffix) + 1, Len(s)) = suffix

\* dns.Fqdn: a name that does not end in a dot gets one.
DnsFqdn(s) ==
    IF Len(s) > 0 /\ s[Len(s)] = "." THEN s ELSE s \o <<".">>

\* NewMulti: one zoneEntry per ZoneConfig, in order; prov stands for the
\* sub-provider built from the i-th configuration.
NewMulti(configs) ==
    [i \in 1..Len(configs) |-> [zone |-> DnsFqdn(configs[i]), prov |-> i]]

\* The loop of zoneFor from entry i on; best is an index into zones, 0 for nil.
RECURSIVE ZoneForFrom(_, _, _, _, _)
ZoneForFrom(zones, name, i, best, bestLen) ==
    IF i > Len(zones) THEN best
    ELSE LET zoneWithoutDot == TrimSuffixDot(zones[i].zone)
         IN IF /\ \/ name = zoneWithoutDot
                  \/ HasSuffix(name, <<".">> \o zoneWithoutDot)
               /\ Len(zoneWithoutDot) > bestLen
            THEN ZoneForFrom(zones, name, i + 1, i, Len(zoneWithoutDot))
            ELSE ZoneForFrom(zones, name, i + 1, best, bestLen)

\* A zoneFor that knows a zone by its apex name only.
zoneForApexOnly(zones, dnsName) ==
    LET apex == {i \in 1..Len(zones) :
                    /\ TrimSuffixDot(zones[i].zone) = TrimSuffixDot(dnsName)
                    /\ Len(TrimSuffixDot(zones[i].zone)) > 0}
    IN IF apex = {} THEN 0 ELSE CHOOSE i \in apex : \A j \in apex : i <= j

\* MultiProvider.zoneFor
zoneFor(zones, dnsName) == ZoneForFrom(zones, TrimSuffixDot(dnsName), 1, 0, 0)

(***************************************************************************)
(* The zone specification: zoneFor on bounded zone lists and names.        *)
(***************************************************************************)
MaxZones == 2
MaxNameLen == 3

NameAlphabet == {"a", "b", "."}

\* ZoneConfig.Zone values; the configuration loaders reject an empty zone.
ZonePool == { <<"a">>, <<"a", ".">>, <<"b", ".", "a">>, <<".">> }

ZoneInit ==
    /\ mzZones \in {NewMulti(configs) : configs \in SeqsUpTo(ZonePool, MaxZones)}
    /\ mzName \in SeqsUpTo(NameAlphabet, MaxNameLen)
    /\ mzBest = 0
    /\ mzPhase = "input"
    /\ BackoffIdle
    /\ MoreIdle
    /\ PlanIdle
    /\ LoopIdle
    /\ RunIdle

ZoneLookup ==
    /\ mzPhase = "input"
    /\ mzBest' = zoneFor(mzZones, mzName)
    /\ mzPhase' = "done"
    /\ UNCHANGED <<mzZones, mzName, boConfig, boN, boOut, boPhase, moreVars, planVars, loopVars, runVars>>

ZoneNext == ZoneLookup

ZoneSpec == ZoneInit /\ [][ZoneNext]_vars

(***************************************************************************)
(* Properties of zoneFor                                                   *)
(***************************************************************************)
\* s without its trailing dot.
Stripped(s) == IF s # <<>> /\ s[Len(s)] = "." THEN SubSeq(s, 1, Len(s) - 1) ELSE s

\* Name n is zone z or ends with "." followed by z, trailing dots aside.
NameInZone(n, z) ==
    LET sn == Stripped(n)
        sz == Stripped(z)
    IN \/ sn = sz
       \/ /\ Len(sn) > Len(sz)
          /\ SubSeq(sn, Len(sn) - Len(sz), Len(sn)) = <<".">> \o sz

\* The entries whose zone matches the name looked up.
MatchingEntries == {i \in 1..Len(mzZones) : NameInZone(mzName, mzZones[i].zone)}

\* The matching entries no other matching entry has a longer zone than.
LongestMatches ==
    {i \in MatchingEntries :
        \A j \in MatchingEntries : Len(Stripped(mzZones[j].zone)) <= Len(Stripped(mzZones[i].zone))}

\* C20: zoneFor(N) returns a zone Z iff N is Z or ends with "."+Z (trailing
\* dots stripped) and no other matching entry has a longer zone; it returns
\* nothing iff no entry matches.
C20_ZoneForLongestSuffix ==
    mzPhase = "done" =>
        /\ (mzBest = 0 <=> MatchingEntries = {})
        /\ (mzBest # 0 => mzBest \in LongestMatches)
        /\ \A i \in LongestMatches : mzBest # 0 /\ mzZones[mzBest].zone = mzZones[i].zone

\* The orders in which n zone entries can be configured.
EntryOrders(n) == {p \in [1..n -> 1..n] : \A i, j \in 1..n : p[i] = p[j] => i = j}

\* The sub-provider zoneFor selects for the name when the entries are
\* configured in the order p, 0 for none.
SelectedUnder(p) ==
    LET zones == [i \in 1..Len(mzZones) |-> mzZones[p[i]]]
        best == zoneFor(zones, mzName)
    IN IF best = 0 THEN 0 ELSE zones[best].prov

\* C24: for every DNS name and every permutation of the configured zone
\* list, zoneFor selects the same sub-provider.
C24_ZoneForOrderIndependent ==
    mzPhase = "done" =>
        \A p \in EntryOrders(Len(mzZones)) :
            SelectedUnder(p) = (IF mzBest = 0 THEN 0 ELSE mzZones[mzBest].prov)

\* The same for zone lists in which no two entries name the same zone.
C24_DistinctZonesOrderIndependent ==
    (\A i, j \in 1..Len(mzZones) : mzZones[i].zone = mzZones[j].zone => i = j)
        => C24_ZoneForOrderIndependent

(***************************************************************************)
(* pkg/controller: Controller.Run.  Three kinds of task take steps: the    *)
(* task executing Run, the source's task calling the event handler, and    *)
(* the runtime's timers.  Time is the order of the steps: a timer that is  *)
(* armed fires at some later step unless it is stopped first.              *)
(***************************************************************************)
MaxErrors == 3

\* The Config of the controller under Run: the defaults, and a ceiling of
\* 12s so that the third failure in a row meets it.
RunCfg ==
    NewCfg([Interval |-> I64(0), DebounceDuration |-> I64(0),
            BackoffBase |-> I64(0), BackoffMax |-> I64Mul(Second, 12)])

\* make(chan struct{}, 1)
ReconcileChCap == 1

\* The errors reconcile returns.
CycleErrors == {"nil", "fetch desired endpoints", "fetch current records", "apply changes"}

\* ctx.Err() after cancellation
ContextCanceled == "context canceled"

\* The event handler starting a timer and leaving the one before it running.
HandlerArmNoStop(timers, d) ==
    Append([i \in 1..(IF timers = <<>> THEN 0 ELSE 1) |->
                [timers[Len(timers)] EXCEPT !.latest = FALSE]],
           [d |-> d, latest |-> TRUE])

\* The event handler: debounceTimer.Stop() takes the timer of the previous
\* call out of the running timers, time.AfterFunc starts a new one.
HandlerArm(timers, d) ==
    Append(SelectSeq(timers, LAMBDA t : ~t.latest), [d |-> d, latest |-> TRUE])

\* A send that waits for room in the channel.
BlockingSend(ch) ==
    IF ch < ReconcileChCap THEN [ch |-> ch + 1, blocked |-> 0]
    ELSE [ch |-> ch, blocked |-> 1]

\* select { case reconcileCh <- struct{}{}: default: }
NonBlockingSend(ch) ==
    IF ch < ReconcileChCap THEN [ch |-> ch + 1, blocked |-> 0]
    ELSE [ch |-> ch, blocked |-> 0]

\* Any task may start a cycle.
AnyTaskReconciles == TRUE

\* reconcile is called from the for-select loop of Run only, by the task
\* that is blocked in the select.
LoopTaskSelects == runPc = "select"

\* doReconcile returning from Run when the cycle failed.
AfterCycleReturnOnError(err) == IF err = "nil" THEN "select" ELSE "returned"

\* doReconcile returns to the for loop whatever the cycle returned.
AfterCycle(err) == "select"

\* The select taking the ctx.Done() case at any time.
DoneReadyAlways == TRUE

\* case <-ctx.Done() can be taken once ctx is cancelled.
DoneReady == cancelled

\* Run returning nil in once mode.
OnceReturnNil(err) == "nil"

\* return c.reconcile(ctx)
OnceReturn(err) == err

\* doReconcile resetting the timer to the interval after every cycle.
NextDelayInterval(err, errors) == RunCfg.Interval

\* doReconcile: the duration nextTimer is reset to, errors being the value
\* of consecutiveErrors after the cycle.
NextDelay(err, errors) ==
    IF err # "nil" THEN backoffDuration(RunCfg, errors) ELSE RunCfg.Interval

Min(a, b) == IF a < b THEN a ELSE b

RunInit ==
    /\ once \in BOOLEAN
    /\ runPc = "start"
    /\ trigger = "none"
    /\ handlerRegistered = FALSE
    /\ reconcileCh = 0
    /\ debounceTimers = <<>>
    /\ nextTimer = NoTimer
    /\ nextTick = 0
    /\ consecutiveErrors = 0
    /\ cancelled = FALSE
    /\ runReturn = "running"
    /\ inFlight = 0
    /\ lastCycleErr = "none"
    /\ blockedSends = 0
    /\ failedSinceSuccess = 0
    /\ cyclesRun = 0
    /\ firesSinceNotify = 0
    /\ staleFired = FALSE
    /\ eventStartsSinceFire = 0
    /\ firesInCycle = 0
    /\ unserved = FALSE
    /\ burstLen = 0
    /\ PlanIdle
    /\ LoopIdle
    /\ FuncIdle

\* The bookkeeping of a call of reconcile.
CycleStarts(by) ==
    /\ runPc' = "cycle"
    /\ trigger' = by
    /\ inFlight' = inFlight + 1
    /\ cyclesRun' = Min(cyclesRun + 1, 2)
    /\ firesInCycle' = 0
    /\ unserved' = FALSE

\* Run with cfg.Once: the call of reconcile.
RunOnce ==
    /\ runPc = "start"
    /\ once
    /\ CycleStarts("once")
    /\ UNCHANGED <<once, handlerRegistered, reconcileCh, debounceTimers, nextTimer, nextTick,
                   consecutiveErrors, cancelled, runReturn, lastCycleErr, blockedSends,
                   failedSinceSuccess, firesSinceNotify, staleFired, eventStartsSinceFire,
                   burstLen, planVars, loopVars, funcVars>>

\* Run with cfg.Once: reconcile returns and Run returns its error.
RunOnceReturn ==
    /\ runPc = "cycle"
    /\ trigger = "once"
    /\ \E err \in CycleErrors :
           /\ lastCycleErr' = err
           /\ runReturn' = OnceReturn(err)
    /\ runPc' = "returned"
    /\ inFlight' = inFlight - 1
    /\ UNCHANGED <<once, trigger, handlerRegistered, reconcileCh, debounceTimers, nextTimer,
                   nextTick, consecutiveErrors, cancelled, blockedSends, failedSinceSuccess,
                   cyclesRun, firesSinceNotify, staleFired, eventStartsSinceFire, firesInCycle,
                   unserved, burstLen, planVars, loopVars, funcVars>>

\* Run without cfg.Once, up to the for loop: the channel, the handler, the
\* timer that fires at once, the error count.
RunLoopSetup ==
    /\ runPc = "start"
    /\ ~once
    /\ handlerRegistered' = TRUE
    /\ reconcileCh' = 0
    /\ nextTimer' = [created |-> TRUE, armed |-> TRUE, d |-> I64(0)]
    /\ consecutiveErrors' = 0
    /\ runPc' = "select"
    /\ UNCHANGED <<once, trigger, debounceTimers, nextTick, cancelled, runReturn, inFlight,
                   lastCycleErr, blockedSends, failedSinceSuccess, cyclesRun, firesSinceNotify,
                   staleFired, eventStartsSinceFire, firesInCycle, unserved,
                   burstLen, planVars, loopVars, funcVars>>

\* The source calls the event handler.
Notify ==
    /\ handlerRegistered
    /\ debounceTimers' = HandlerArm(debounceTimers, RunCfg.DebounceDuration)
    /\ firesSinceNotify' = 0
    /\ unserved' = TRUE
    /\ burstLen' = IF \E i \in 1..Len(debounceTimers) : debounceTimers[i].latest
                   THEN Min(burstLen + 1, 2) ELSE 1
    /\ UNCHANGED <<once, runPc, trigger, handlerRegistered, reconcileCh, nextTimer, nextTick,
                   consecutiveErrors, cancelled, runReturn, inFlight, lastCycleErr, blockedSends,
                   failedSinceSuccess, cyclesRun, staleFired, eventStartsSinceFire, firesInCycle,
                   planVars, loopVars, funcVars>>

\* A debounce timer fires: its function sends to reconcileCh.
DebounceFire ==
    /\ \E i \in 1..Len(debounceTimers) :
           /\ debounceTimers' = SubSeq(debounceTimers, 1, i - 1)
                                    \o SubSeq(debounceTimers, i + 1, Len(debounceTimers))
           /\ staleFired' = (staleFired \/ ~debounceTimers[i].latest)
    /\ reconcileCh' = NonBlockingSend(reconcileCh).ch
    /\ blockedSends' = Min(blockedSends + NonBlockingSend(reconcileCh).blocked, 1)
    /\ firesSinceNotify' = Min(firesSinceNotify + 1, 2)
    /\ eventStartsSinceFire' = 0
    /\ firesInCycle' = IF runPc = "cycle" THEN Min(firesInCycle + 1, 2) ELSE firesInCycle
    /\ UNCHANGED <<once, runPc, trigger, handlerRegistered, nextTimer, nextTick,
                   consecutiveErrors, cancelled, runReturn, inFlight, lastCycleErr,
                   failedSinceSuccess, cyclesRun, unserved, burstLen, planVars, loopVars, funcVars>>

\* nextTimer fires: the runtime sends the time to nextTimer.C, a channel
\* with room for one value, without blocking.
NextTimerFire ==
    /\ nextTimer.armed
    /\ nextTimer' = [nextTimer EXCEPT !.armed = FALSE]
    /\ nextTick' = Min(nextTick + 1, 1)
    /\ UNCHANGED <<once, runPc, trigger, handlerRegistered, reconcileCh, debounceTimers,
                   consecutiveErrors, cancelled, runReturn, inFlight, lastCycleErr, blockedSends,
                   failedSinceSuccess, cyclesRun, firesSinceNotify, staleFired,
                   eventStartsSinceFire, firesInCycle, unserved, burstLen, planVars, loopVars, funcVars>>

\* case <-nextTimer.C: doReconcile() up to the call of reconcile.
SelectTimer ==
    /\ LoopTaskSelects
    /\ nextTick > 0
    /\ nextTick' = nextTick - 1
    /\ CycleStarts("timer")
    /\ UNCHANGED <<once, handlerRegistered, reconcileCh, debounceTimers, nextTimer,
                   consecutiveErrors, cancelled, runReturn, lastCycleErr, blockedSends,
                   failedSinceSuccess, firesSinceNotify, staleFired, eventStartsSinceFire,
                   burstLen, planVars, loopVars, funcVars>>

\* case <-reconcileCh: nextTimer.Stop(); doReconcile() up to the call of
\* reconcile.  Stop does not drain nextTimer.C: a tick the timer sent before
\* stays there with the timers of Go up to 1.22 and is discarded with those
\* of Go 1.23 on.
SelectEvent ==
    /\ LoopTaskSelects
    /\ reconcileCh > 0
    /\ reconcileCh' = reconcileCh - 1
    /\ nextTimer' = [nextTimer EXCEPT !.armed = FALSE]
    /\ nextTick' \in {nextTick, 0}
    /\ eventStartsSinceFire' = Min(eventStartsSinceFire + 1, 2)
    /\ CycleStarts("event")
    /\ UNCHANGED <<once, handlerRegistered, debounceTimers, consecutiveErrors, cancelled,
                   runReturn, lastCycleErr, blockedSends, failedSinceSuccess, firesSinceNotify,
                   staleFired, burstLen, planVars, loopVars, funcVars>>

\* case <-ctx.Done(): return ctx.Err(), and the deferred nextTimer.Stop().
SelectDone ==
    /\ runPc = "select"
    /\ DoneReady
    /\ runPc' = "returned"
    /\ runReturn' = ContextCanceled
    /\ nextTimer' = [nextTimer EXCEPT !.armed = FALSE]
    /\ UNCHANGED <<once, trigger, handlerRegistered, reconcileCh, debounceTimers, nextTick,
                   consecutiveErrors, cancelled, inFlight, lastCycleErr, blockedSends,
                   failedSinceSuccess, cyclesRun, firesSinceNotify, staleFired,
                   eventStartsSinceFire, firesInCycle, unserved, burstLen, planVars, loopVars, funcVars>>

\* doReconcile from the return of reconcile on: count the error and reset
\* nextTimer to the backoff, or clear the count and reset it to the interval.
DoReconcileEnd ==
    /\ runPc = "cycle"
    /\ trigger # "once"
    /\ \E err \in CycleErrors :
           /\ err # "nil" => consecutiveErrors < MaxErrors
           /\ lastCycleErr' = err
           /\ consecutiveErrors' = IF err # "nil" THEN consecutiveErrors + 1 ELSE 0
           /\ failedSinceSuccess' = IF err = "nil" THEN 0 ELSE failedSinceSuccess + 1
           /\ nextTimer' = [created |-> TRUE, armed |-> TRUE, d |-> NextDelay(err, consecutiveErrors')]
           /\ runPc' = AfterCycle(err)
    /\ inFlight' = inFlight - 1
    /\ UNCHANGED <<once, trigger, handlerRegistered, reconcileCh, debounceTimers, nextTick,
                   cancelled, runReturn, blockedSends, cyclesRun, firesSinceNotify, staleFired,
                   eventStartsSinceFire, firesInCycle, unserved, burstLen, planVars, loopVars, funcVars>>

\* The embedding program cancels ctx.
Cancel ==
    /\ runPc # "returned"
    /\ ~cancelled
    /\ cancelled' = TRUE
    /\ UNCHANGED <<once, runPc, trigger, handlerRegistered, reconcileCh, debounceTimers,
                   nextTimer, nextTick, consecutiveErrors, runReturn, inFlight, lastCycleErr,
                   blockedSends, failedSinceSuccess, cyclesRun, firesSinceNotify, staleFired,
                   eventStartsSinceFire, firesInCycle, unserved, burstLen, planVars, loopVars, funcVars>>

RunNext ==
    \/ RunOnce
    \/ RunOnceReturn
    \/ RunLoopSetup
    \/ Notify
    \/ DebounceFire
    \/ NextTimerFire
    \/ SelectTimer
    \/ SelectEvent
    \/ SelectDone
    \/ DoReconcileEnd
    \/ Cancel

RunSpec == RunInit /\ [][RunNext]_vars

\* The tasks of Run keep taking steps: the task in the select takes a case
\* that is ready, a cycle's I/O returns, and an armed timer fires.
RunFairness ==
    /\ WF_vars(RunOnce \/ RunOnceReturn \/ RunLoopSetup)
    /\ WF_vars(SelectTimer \/ SelectEvent \/ SelectDone)
    /\ WF_vars(DoReconcileEnd)
    /\ WF_vars(DebounceFire)
    /\ WF_vars(NextTimerFire)

RunLiveSpec == RunInit /\ [][RunNext]_vars /\ RunFairness

(***************************************************************************)
(* Properties of Controller.Run                                            *)
(***************************************************************************)
\* A cycle of the loop returns in this step.
LoopCycleReturns == ~once /\ inFlight' < inFlight

\* C11: in loop mode consecutiveErrors is the number of failed cycles since
\* the last successful one, and the step in which a cycle returns re-arms
\* the periodic timer, to the interval (60s) after a success and to
\* backoffDuration(consecutiveErrors) after a failure.
C11_ErrorCountAndTimerReset ==
    /\ [](~once => consecutiveErrors = failedSinceSuccess)
    /\ [][LoopCycleReturns =>
             /\ lastCycleErr' = "nil" => failedSinceSuccess' = 0
             /\ nextTimer'.armed
             /\ nextTimer'.d = IF lastCycleErr' = "nil"
                               THEN I64Mul(Second, 60)
                               ELSE backoffDuration(RunCfg, failedSinceSuccess')]_vars

\* The third failure in a row has armed the timer with the ceiling of 12s.
C11_Witness ==
    /\ ~once
    /\ runPc = "select"
    /\ lastCycleErr = "apply changes"
    /\ consecutiveErrors = 3
    /\ nextTimer.armed
    /\ nextTimer.d = I64Mul(Second, 12)

\* C13: a burst of notifications, each arriving while the debounce timer of
\* the one before is still running, makes one timer fire, the one armed by
\* the last notification with the debounce duration (5s); the firing leaves
\* one signal in the channel and one event cycle takes it.
C13_BurstTriggersOneCycle ==
    ~once =>
        /\ ~staleFired
        /\ Len(debounceTimers) <= 1
        /\ \A i \in 1..Len(debounceTimers) :
               debounceTimers[i].latest /\ debounceTimers[i].d = I64Mul(Second, 5)
        /\ firesSinceNotify <= 1
        /\ eventStartsSinceFire <= 1
        /\ (firesSinceNotify = 1 /\ eventStartsSinceFire = 0) => reconcileCh = 1
        /\ (firesSinceNotify = 0 /\ burstLen > 0) => Len(debounceTimers) = 1

\* A burst of two or more notifications has fired once and its event cycle
\* is in flight.
C13_Witness ==
    /\ burstLen = 2
    /\ firesSinceNotify = 1
    /\ eventStartsSinceFire = 1
    /\ runPc = "cycle"
    /\ trigger = "event"
    /\ reconcileCh = 0
    /\ debounceTimers = <<>>

\* C15: with once set Run runs one cycle and returns the error of that
\* cycle; it registers no event handler and creates no timer.
C15_OnceRunsOneCycle ==
    once =>
        /\ cyclesRun <= 1
        /\ ~handlerRegistered
        /\ ~nextTimer.created
        /\ debounceTimers = <<>>
        /\ runPc = "returned" => (cyclesRun = 1 /\ runReturn = lastCycleErr)
        /\ runPc # "returned" => runReturn = "running"

\* Run has returned the error of a failed single cycle.
C15_Witness ==
    /\ once
    /\ runPc = "returned"
    /\ cyclesRun = 1
    /\ runReturn = "fetch current records"

\* C16: in loop mode Run stays in its loop when a cycle fails, returns only
\* once ctx is cancelled, and returns the cancellation error.
C16_LoopReturnsOnlyOnCancel ==
    /\ []((~once /\ runPc = "returned") => (cancelled /\ runReturn = "context canceled"))
    /\ []((~once /\ runPc # "returned") => runReturn = "running")
    /\ [][LoopCycleReturns => runPc' = "select"]_vars

\* An event-triggered cycle has failed and Run is back in the select.
C16_Witness ==
    /\ ~once
    /\ runPc = "select"
    /\ trigger = "event"
    /\ lastCycleErr = "fetch desired endpoints"
    /\ ~cancelled
    /\ runReturn = "running"

\* C17: at most one cycle is in flight, and a cycle starts only when none
\* is in flight.
C17_CyclesNeverOverlap ==
    /\ [](inFlight <= 1)
    /\ [][inFlight' > inFlight => inFlight = 0]_vars

\* A cycle is in flight while the periodic tick, the event signal and a
\* debounce timer are all pending.
C17_Witness ==
    /\ inFlight = 1
    /\ runPc = "cycle"
    /\ nextTick = 1
    /\ reconcileCh = 1
    /\ Len(debounceTimers) = 1

\* C18: reconcileCh never holds more than one signal, the timer's send never
\* blocks, a firing that finds a signal pending leaves the channel as it
\* is, and after any number of firings during a cycle one signal is pending.
C18_SingleSlotSignal ==
    /\ [](reconcileCh <= 1)
    /\ [](blockedSends = 0)
    /\ []((runPc = "cycle" /\ firesInCycle >= 1) => reconcileCh = 1)
    /\ [](eventStartsSinceFire <= 1)
    /\ [][(Len(debounceTimers') < Len(debounceTimers) /\ reconcileCh = 1)
              => reconcileCh' = 1]_vars

\* Two debounce timers have fired during the cycle in flight.
C18_Witness ==
    /\ runPc = "cycle"
    /\ firesInCycle = 2
    /\ reconcileCh = 1
    /\ blockedSends = 0

\* C19: in loop mode without cancellation, if the notifications pause then
\* every notification is followed by the start of a cycle.
C19_NotificationLeadsToCycle ==
    (~once /\ []~cancelled /\ <>[][~Notify]_vars) => [](unserved => <>~unserved)

\* A notification arrived while a cycle was in flight and no cycle has
\* started since.
C19_Witness ==
    /\ ~once
    /\ ~cancelled
    /\ unserved
    /\ runPc = "cycle"
    /\ Len(debounceTimers) = 1

C34_NoCycleFromStaleTick ==
    [][(/\ runPc = "select"
        /\ trigger = "event"
        /\ runPc' = "cycle"
        /\ trigger' = "timer")
          => ~nextTimer.armed]_vars

(***************************************************************************)
(* The TTL specification: one endpoint as the source builds it from a      *)
(* container's labels (strconv.ParseInt accepts every ttl label from 0 to  *)
(* 2^63-1) is handed as a create to the RFC2136 provider's ApplyChanges    *)
(* under a MinTTL setting (an int64 flag).                                 *)
(***************************************************************************)
\* Values of the ttl label: 0, 1, 60, 300, 3600, 2^31-1, 2^32-1, 2^32,
\* 2^32+60 and 2^63-1.
TtlLabelPool ==
    { <<0, 0, 0, 0>>, <<1, 0, 0, 0>>, <<60, 0, 0, 0>>, <<300, 0, 0, 0>>, <<3600, 0, 0, 0>>,
      <<65535, 32767, 0, 0>>, <<65535, 65535, 0, 0>>, <<0, 0, 1, 0>>, <<60, 0, 1, 0>>,
      <<65535, 65535, 65535, 32767>> }

\* Values of --rfc2136-min-ttl: 0, -1, 60, 3600, 2^32 and 2^32+30.
MinTTLPool ==
    { <<0, 0, 0, 0>>, <<65535, 65535, 65535, 65535>>, <<60, 0, 0, 0>>, <<3600, 0, 0, 0>>,
      <<0, 0, 1, 0>>, <<30, 0, 1, 0>> }

TtlInit ==
    /\ ttlEndpoint \in { EndpointNew(<<"app">>, <<target>>, recordType, ttl) :
                            target \in {"1.2.3.4"},
                            recordType \in {RecordTypeA, RecordTypeTXT},
                            ttl \in TtlLabelPool }
    /\ ttlMin \in MinTTLPool
    /\ ttlInserted = {}
    /\ ttlPhase = "input"
    /\ MultiIdle
    /\ ConfigIdle
    /\ WatchIdle
    /\ LateIdle
    /\ BackoffIdle
    /\ ZoneIdle
    /\ PlanIdle
    /\ LoopIdle
    /\ RunIdle

\* ApplyChanges with the endpoint as the only create, on an empty zone.
TtlApply ==
    /\ ttlPhase = "input"
    /\ ttlInserted' = ProviderApplyChanges({}, ttlMin,
                           [EmptyChanges EXCEPT !.Create = <<ttlEndpoint>>], FALSE).inserted
    /\ ttlPhase' = "done"
    /\ UNCHANGED <<ttlEndpoint, ttlMin, multiVars, configVars, watchVars, lateVars, boConfig, boN, boOut, boPhase,
                   mzZones, mzName, mzBest, mzPhase, planVars, loopVars, runVars>>

TtlNext == TtlApply

TtlSpec == TtlInit /\ [][TtlNext]_vars

\* The larger of two int64 values.
I64Max(a, b) == IF I64Less(a, b) THEN b ELSE a

\* C26: every record the provider inserts carries the TTL
\* max(endpoint TTL, minTTL) when minTTL > 0 and the endpoint's own TTL when
\* minTTL = 0.
C26_InsertedTTLIsFloored ==
    ttlPhase = "done" =>
        \A rr \in ttlInserted :
            /\ (I64Less(I64(0), ttlMin) =>
                    Int64OfUint32(rr.Ttl) = I64Max(ttlEndpoint.TTL, ttlMin))
            /\ (ttlMin = I64(0) => Int64OfUint32(rr.Ttl) = ttlEndpoint.TTL)

(***************************************************************************)
(* pkg/provider/rfc2136: MultiProvider.ApplyChanges and Records.  Names    *)
(* are sequences of characters as for zoneFor.  A sub-provider is known by *)
(* the index of the configuration it was built from; a call of a           *)
(* sub-provider in maFailing returns an error, which is written as the     *)
(* index of that sub-provider.                                             *)
(***************************************************************************)
\* The indices i from k on of the endpoints zoneFor routes to the zone
\* string z; eps[i] with no zone is skipped.
RECURSIVE RoutedFrom(_, _, _, _)
RoutedFrom(zones, eps, z, k) ==
    IF k > Len(eps) THEN <<>>
    ELSE LET ze == zoneFor(zones, eps[k].DNSName)
         IN (IF ze # 0 /\ zones[ze].zone = z THEN <<k>> ELSE <<>>)
                \o RoutedFrom(zones, eps, z, k + 1)

\* byZone[z] after the three loops of ApplyChanges: a pair goes where its
\* old endpoint goes, the new one is appended if it exists.
Bucket(zones, changes, z) ==
    LET c == RoutedFrom(zones, changes.Create, z, 1)
        d == RoutedFrom(zones, changes.Delete, z, 1)
        u == RoutedFrom(zones, changes.UpdateOld, z, 1)
        n == SelectSeq(u, LAMBDA i : i <= Len(changes.UpdateNew))
    IN [Create |-> [i \in 1..Len(c) |-> changes.Create[c[i]]],
        UpdateOld |-> [i \in 1..Len(u) |-> changes.UpdateOld[u[i]]],
        UpdateNew |-> [i \in 1..Len(n) |-> changes.UpdateNew[n[i]]],
        Delete |-> [i \in 1..Len(d) |-> changes.Delete[d[i]]]]

\* The dispatch loop of ApplyChanges from entry i on.
RECURSIVE DispatchFrom(_, _, _, _)
DispatchFrom(zones, changes, failing, i) ==
    IF i > Len(zones) THEN [calls |-> <<>>, err |-> 0]
    ELSE LET zc == Bucket(zones, changes, zones[i].zone)
             rest == DispatchFrom(zones, changes, failing, i + 1)
             call == [prov |-> zones[i].prov, changes |-> zc]
         IN IF IsEmpty(zc) THEN rest
            ELSE IF zones[i].prov \in failing
                 THEN [calls |-> <<call>>, err |-> zones[i].prov]
                 ELSE [calls |-> <<call>> \o rest.calls, err |-> rest.err]

\* A dispatch that calls every sub-provider with a non-empty bucket and
\* returns the first error afterwards.
MultiApplyChangesKeepsGoing(zones, changes, failing) ==
    LET work == SelectSeq([i \in 1..Len(zones) |-> i],
                          LAMBDA i : ~IsEmpty(Bucket(zones, changes, zones[i].zone)))
        bad == SelectSeq(work, LAMBDA i : zones[i].prov \in failing)
    IN [calls |-> [j \in 1..Len(work) |->
                     [prov |-> zones[work[j]].prov,
                      changes |-> Bucket(zones, changes, zones[work[j]].zone)]],
        err |-> IF bad = <<>> THEN 0 ELSE zones[bad[1]].prov]

\* MultiProvider.ApplyChanges
MultiApplyChanges(zones, changes, failing) == DispatchFrom(zones, changes, failing, 1)

\* What the Records call of sub-provider i returns: its error, or the
\* records of its zone (here the apex address record).
SubRecords(zones, failing, i) ==
    IF zones[i].prov \in failing
    THEN [eps |-> <<>>, err |-> zones[i].prov]
    ELSE [eps |-> <<[DNSName |-> TrimSuffixDot(zones[i].zone), Targets |-> <<"1.2.3.4">>,
                     RecordType |-> "A", TTL |-> <<300, 0, 0, 0>>]>>,
          err |-> 0]

\* results as make([]result, len(m.zones)) leaves it.
ZeroResults(n) == [i \in 1..n |-> [eps |-> <<>>, err |-> 0]]

\* A Records that does not wait for the reads.
WaitReturnsAtOnce(pending) == TRUE

\* wg.Wait() returns.
WaitReturns(pending) == pending = {}

\* The merge loop of Records from slot i on.
RECURSIVE MergeFrom(_, _, _)
MergeFrom(results, i, all) ==
    IF i > Len(results) THEN [eps |-> all, err |-> 0]
    ELSE IF results[i].err # 0 THEN [eps |-> <<>>, err |-> results[i].err]
    ELSE MergeFrom(results, i + 1, all \o results[i].eps)

(***************************************************************************)
(* The multi specification: one call of ApplyChanges run to its end in one *)
(* step, or one call of Records whose reads complete in any order.         *)
(***************************************************************************)
MaxRouted == 2

\* DNS names of the endpoints of a change set.
RoutedNames == { <<"a">>, <<"b", ".", "a">>, <<".">> }

RoutedItems == [kind : {"create", "update", "delete"}, name : RoutedNames]

RoutedEndpoint(name, target) ==
    [DNSName |-> name, Targets |-> <<target>>, RecordType |-> "A", TTL |-> <<300, 0, 0, 0>>]

\* The change set that holds the items in their order.
RECURSIVE ChangesOf(_)
ChangesOf(items) ==
    IF items = <<>> THEN EmptyChanges
    ELSE LET c == ChangesOf(SubSeq(items, 1, Len(items) - 1))
             it == items[Len(items)]
         IN CASE it.kind = "create" ->
                   [c EXCEPT !.Create = Append(@, RoutedEndpoint(it.name, "1.2.3.4"))]
              [] it.kind = "delete" ->
                   [c EXCEPT !.Delete = Append(@, RoutedEndpoint(it.name, "1.2.3.4"))]
              [] it.kind = "update" ->
                   [c EXCEPT !.UpdateOld = Append(@, RoutedEndpoint(it.name, "1.2.3.4")),
                             !.UpdateNew = Append(@, RoutedEndpoint(it.name, "5.6.7.8"))]

MultiInit ==
    /\ maZones \in {NewMulti(configs) : configs \in SeqsUpTo(ZonePool, MaxZones)}
    /\ maFailing \in SUBSET (1..Len(maZones))
    /\ \/ /\ maPhase = "apply"
          /\ maChanges \in {ChangesOf(items) : items \in SeqsUpTo(RoutedItems, MaxRouted)}
       \/ /\ maPhase = "records"
          /\ maChanges = EmptyChanges
    /\ maCalls = <<>>
    /\ maErr = 0
    /\ mrResults = <<>>
    /\ mrPending = {}
    /\ mrOut = <<>>
    /\ TtlIdle
    /\ ConfigIdle
    /\ WatchIdle
    /\ LateIdle
    /\ BackoffIdle
    /\ ZoneIdle
    /\ PlanIdle
    /\ LoopIdle
    /\ RunIdle

multiRest == <<ttlVars, configVars, watchVars, lateVars, boConfig, boN, boOut, boPhase, mzZones, mzName, mzBest, mzPhase,
               planVars, loopVars, runVars>>

MultiApply ==
    /\ maPhase = "apply"
    /\ LET out == MultiApplyChanges(maZones, maChanges, maFailing)
       IN /\ maCalls' = out.calls
          /\ maErr' = out.err
    /\ maPhase' = "applied"
    /\ UNCHANGED <<maZones, maChanges, maFailing, mrResults, mrPending, mrOut, multiRest>>

\* Records up to wg.Wait(): one task per zone entry is started.
RecordsFanOut ==
    /\ maPhase = "records"
    /\ mrResults' = ZeroResults(Len(maZones))
    /\ mrPending' = 1..Len(maZones)
    /\ maPhase' = "reading"
    /\ UNCHANGED <<maZones, maChanges, maFailing, maCalls, maErr, mrOut, multiRest>>

\* The task of slot idx: the read completes and its result is stored.
ReadCompletes(idx) ==
    /\ maPhase = "reading"
    /\ idx \in mrPending
    /\ mrResults' = [mrResults EXCEPT ![idx] = SubRecords(maZones, maFailing, idx)]
    /\ mrPending' = mrPending \ {idx}
    /\ UNCHANGED <<maZones, maChanges, maFailing, maCalls, maErr, maPhase, mrOut, multiRest>>

\* Records from wg.Wait() to its return.
RecordsReturn ==
    /\ maPhase = "reading"
    /\ WaitReturns(mrPending)
    /\ mrOut' = MergeFrom(mrResults, 1, <<>>)
    /\ maPhase' = "read"
    /\ UNCHANGED <<maZones, maChanges, maFailing, maCalls, maErr, mrResults, mrPending, multiRest>>

MultiNext ==
    \/ MultiApply
    \/ RecordsFanOut
    \/ \E idx \in 1..Len(maZones) : ReadCompletes(idx)
    \/ RecordsReturn

MultiSpec == MultiInit /\ [][MultiNext]_vars

(***************************************************************************)
(* Properties of MultiProvider.ApplyChanges and Records                    *)
(***************************************************************************)
\* The sub-providers whose zone matches the name and is the longest that
\* does.
LongestSuffixProviders(name) ==
    LET matching == {i \in 1..Len(maZones) : NameInZone(name, maZones[i].zone)}
    IN {maZones[i].prov : i \in
           {i \in matching :
               \A j \in matching :
                   Len(Stripped(maZones[j].zone)) <= Len(Stripped(maZones[i].zone))}}

\* The calls that were handed the endpoint in the list named by field.
HandedTo(field, ep) ==
    {j \in 1..Len(maCalls) : \E k \in 1..Len(maCalls[j].changes[field]) :
                                 maCalls[j].changes[field][k] = ep}

\* The calls that were handed the pair (old, new) at one position.
PairHandedTo(old, new) ==
    {j \in 1..Len(maCalls) :
        \E k \in 1..Len(maCalls[j].changes.UpdateOld) :
            /\ maCalls[j].changes.UpdateOld[k] = old
            /\ k <= Len(maCalls[j].changes.UpdateNew)
            /\ maCalls[j].changes.UpdateNew[k] = new}

\* The calls in handed go to the longest-suffix match of the name and are
\* at most one; exactly one when ApplyChanges returned nil and the name
\* matches a zone; none when it matches no zone.
HandedToExactlyOne(name, handed) ==
    /\ Cardinality(handed) <= 1
    /\ \A j \in handed : maCalls[j].prov \in LongestSuffixProviders(name)
    /\ (maErr = 0 /\ LongestSuffixProviders(name) # {} => handed # {})

\* C21: ApplyChanges hands every endpoint of create and delete, and every
\* (updateOld, updateNew) pair, to exactly one sub-provider, the
\* longest-suffix match of its DNS name; a sub-provider whose bucket is
\* empty is never called; an endpoint that matches no zone is skipped and
\* makes no error.
C21_EachEndpointToOneSubProvider ==
    maPhase = "applied" =>
        /\ \A i \in 1..Len(maChanges.Create) :
               HandedToExactlyOne(maChanges.Create[i].DNSName,
                                  HandedTo("Create", maChanges.Create[i]))
        /\ \A i \in 1..Len(maChanges.Delete) :
               HandedToExactlyOne(maChanges.Delete[i].DNSName,
                                  HandedTo("Delete", maChanges.Delete[i]))
        /\ \A i \in 1..Len(maChanges.UpdateOld) :
               HandedToExactlyOne(maChanges.UpdateOld[i].DNSName,
                                  PairHandedTo(maChanges.UpdateOld[i], maChanges.UpdateNew[i]))
        /\ \A j \in 1..Len(maCalls) : ~IsEmpty(maCalls[j].changes)
        /\ (maFailing = {} => maErr = 0)

\* No two entries name the same zone and none names the root zone.
DistinctNonRootZones ==
    /\ \A i, j \in 1..Len(maZones) : maZones[i].zone = maZones[j].zone => i = j
    /\ \A i \in 1..Len(maZones) : maZones[i].zone # <<".">>

\* The same for zone lists of distinct zones without the root zone.
C21_HoldsForDistinctNonRootZones == DistinctNonRootZones => C21_EachEndpointToOneSubProvider

\* The entries whose bucket is not empty.
NonEmptyBuckets ==
    {i \in 1..Len(maZones) : ~IsEmpty(Bucket(maZones, maChanges, maZones[i].zone))}

\* The sub-providers called, in the order of the calls.
CalledProviders == [j \in 1..Len(maCalls) |-> maCalls[j].prov]

\* C22: ApplyChanges calls the sub-providers with non-empty buckets one at
\* a time in zone-entry order; when one returns an error, that error is
\* returned and no sub-provider later in the order is called.
C22_InOrderStopAtFirstError ==
    maPhase = "applied" =>
        LET failed == {i \in NonEmptyBuckets : i \in maFailing}
            last == IF failed = {} THEN Len(maZones)
                    ELSE CHOOSE i \in failed : \A k \in failed : i <= k
        IN /\ \A j \in 1..(Len(maCalls) - 1) : CalledProviders[j] < CalledProviders[j + 1]
           /\ {CalledProviders[j] : j \in 1..Len(maCalls)} = {i \in NonEmptyBuckets : i <= last}
           /\ maErr = (IF failed = {} THEN 0 ELSE last)

\* The first of two sub-providers with work failed and the second was not
\* called.
C22_Witness ==
    /\ maPhase = "applied"
    /\ maErr = 1
    /\ Len(maCalls) = 1
    /\ 2 \in NonEmptyBuckets

\* C23: Records returns only after every read has completed; it returns
\* the error of the lowest-index failing sub-provider and no endpoints, or,
\* when none failed, the endpoints of all sub-providers in index order,
\* whatever the order in which the reads complete.
C23_RecordsAfterAllReads ==
    maPhase = "read" =>
        /\ mrPending = {}
        /\ \A i \in 1..Len(maZones) : mrResults[i] = SubRecords(maZones, maFailing, i)
        /\ IF maFailing = {}
           THEN /\ mrOut.err = 0
                /\ Len(mrOut.eps) = Len(maZones)
                /\ \A i \in 1..Len(maZones) :
                       mrOut.eps[i] = SubRecords(maZones, maFailing, i).eps[1]
           ELSE /\ mrOut.err = CHOOSE i \in maFailing : \A k \in maFailing : i <= k
                /\ mrOut.eps = <<>>

\* Records of two sub-providers that both failed has returned.
C23_Witness ==
    /\ maPhase = "read"
    /\ maFailing = {1, 2}
    /\ mrOut.err = 1

(***************************************************************************)
(* cmd/external-dns-docker: the RFC2136 configuration of main.  A zone is  *)
(* given by its host, zone, TSIG secret and TSIG secret file, each a       *)
(* string that is empty when the setting is absent.                        *)
(***************************************************************************)
\* main exits with status 1 before a provider is built.
Fatal == [fatal |-> TRUE, configs |-> <<>>]

\* main goes on to build the provider from the configurations.
Started(configs) == [fatal |-> FALSE, configs |-> configs]

\* strings.TrimSpace of the content of the secret file.
SecretFileContent == "secret-from-file"

\* Mode 1 of main: the single-zone flags.
singleZoneMode(z, readable) ==
    IF z.host # "" /\ z.zone # ""
    THEN IF z.secret # "" /\ z.secretFile # "" THEN Fatal
         ELSE IF z.secretFile # ""
         THEN IF ~readable THEN Fatal
              ELSE Started(<<[Host |-> z.host, Zone |-> z.zone, TSIGSecret |-> SecretFileContent]>>)
         ELSE Started(<<[Host |-> z.host, Zone |-> z.zone, TSIGSecret |-> z.secret]>>)
    ELSE Fatal

\* The loop of loadZoneConfigsFromFile over raw.Zones from entry i on.
RECURSIVE FileZonesFrom(_, _, _, _)
FileZonesFrom(zones, readable, i, configs) ==
    IF i > Len(zones) THEN Started(configs)
    ELSE LET z == zones[i]
         IN IF z.host = "" THEN Fatal
            ELSE IF z.zone = "" THEN Fatal
            ELSE IF z.secret # "" /\ z.secretFile # "" THEN Fatal
            ELSE IF z.secretFile # "" /\ ~readable THEN Fatal
            ELSE FileZonesFrom(zones, readable, i + 1,
                     Append(configs,
                            [Host |-> z.host, Zone |-> z.zone,
                             TSIGSecret |-> IF z.secretFile # "" THEN SecretFileContent
                                            ELSE z.secret]))

\* Mode 3 of main: loadZoneConfigsFromFile, an error of which is fatal.
loadZoneConfigsFromFile(zones, readable) == FileZonesFrom(zones, readable, 1, <<>>)

\* The loop of loadZoneConfigsFromEnv over the sorted names from i on.
RECURSIVE EnvZonesFrom(_, _, _, _)
EnvZonesFrom(zones, readable, i, result) ==
    IF i > Len(zones) THEN Started(result)
    ELSE LET zc == zones[i]
         IN IF zc.host = "" THEN Fatal
            ELSE IF zc.zone = "" THEN Fatal
            ELSE IF zc.secretFile # ""
            THEN IF ~readable THEN Fatal
                 ELSE EnvZonesFrom(zones, readable, i + 1,
                          Append(result, [Host |-> zc.host, Zone |-> zc.zone,
                                          TSIGSecret |-> SecretFileContent]))
            ELSE EnvZonesFrom(zones, readable, i + 1,
                     Append(result, [Host |-> zc.host, Zone |-> zc.zone,
                                     TSIGSecret |-> zc.secret]))

\* Mode 2 of main: loadZoneConfigsFromEnv, an error of which is fatal.
loadZoneConfigsFromEnv(zones, readable) == EnvZonesFrom(zones, readable, 1, <<>>)

\* main from the mode switch to the construction of the provider.
MainProvider(mode, zones, readable) ==
    CASE mode = "file" -> loadZoneConfigsFromFile(zones, readable)
      [] mode = "env" -> loadZoneConfigsFromEnv(zones, readable)
      [] mode = "flags" -> singleZoneMode(zones[1], readable)

(***************************************************************************)
(* The config specification: main on bounded configurations.               *)
(***************************************************************************)
MaxCfgZones == 2

RawZones == [host : {"", "ns1"}, zone : {"", "a"}, secret : {"", "s3cret"},
             secretFile : {"", "/run/secrets/tsig"}]

ConfigInit ==
    /\ cfgMode \in {"flags", "file", "env"}
    /\ cfgZones \in SeqsUpTo(RawZones, MaxCfgZones)
    /\ cfgMode = "flags" => Len(cfgZones) = 1
    /\ cfgMode = "env" => Len(cfgZones) >= 1
    /\ cfgFileReadable \in BOOLEAN
    /\ cfgOutcome = <<>>
    /\ cfgPhase = "input"
    /\ TtlIdle
    /\ MultiIdle
    /\ WatchIdle
    /\ LateIdle
    /\ BackoffIdle
    /\ ZoneIdle
    /\ PlanIdle
    /\ LoopIdle
    /\ RunIdle

ConfigLoad ==
    /\ cfgPhase = "input"
    /\ cfgOutcome' = MainProvider(cfgMode, cfgZones, cfgFileReadable)
    /\ cfgPhase' = "done"
    /\ UNCHANGED <<cfgMode, cfgZones, cfgFileReadable, ttlVars, multiVars, watchVars, lateVars, boConfig, boN, boOut,
                   boPhase, mzZones, mzName, mzBest, mzPhase, planVars, loopVars, runVars>>

ConfigNext == ConfigLoad

ConfigSpec == ConfigInit /\ [][ConfigNext]_vars

\* C27: in every configuration mode a zone configured with both a TSIG
\* secret and a TSIG secret file is rejected as a fatal configuration error
\* before any provider or controller is started.
C27_SecretAndSecretFileRejected ==
    cfgPhase = "done" =>
        ((\E i \in 1..Len(cfgZones) : cfgZones[i].secret # "" /\ cfgZones[i].secretFile # "")
            => cfgOutcome.fatal)

\* The same without the environment-variable mode.
C27_HoldsForFlagsAndFile == cfgMode # "env" => C27_SecretAndSecretFileRejected

(***************************************************************************)
(* The trailing-dot specification: the plan specification on desired       *)
(* endpoints whose hostname label is written with or without a trailing    *)
(* dot (parseSingle trims spaces only) and on current endpoints as the     *)
(* RFC2136 provider returns them, without trailing dots.                   *)
(***************************************************************************)
DotDesiredPool ==
    { EndpointNew(<<"app">>, <<"1.2.3.4">>, RecordTypeA, I64(300)),
      EndpointNew(<<"app", "">>, <<"1.2.3.4">>, RecordTypeA, I64(300)),
      EndpointNew(<<"app", "">>, <<"5.6.7.8">>, RecordTypeA, I64(300)) }

DotCurrentPool ==
    { EndpointNew(<<"app">>, <<"1.2.3.4">>, RecordTypeA, I64(300)),
      OwnerTXT("mine", <<"app">>),
      OwnerTXT("other", <<"app">>) }

DotInit ==
    /\ planDesired \in SeqsUpTo(DotDesiredPool, MaxDesired)
    /\ planCurrent \in SeqsUpTo(DotCurrentPool, MaxCurrent)
    /\ planChanges = EmptyChanges
    /\ planStore = <<>>
    /\ planChanges2 = EmptyChanges
    /\ planPhase = "input"
    /\ LoopIdle
    /\ FuncIdle
    /\ RunIdle

DotSpec == DotInit /\ [][PlanNext]_vars

\* C29: a desired endpoint and a current record whose names differ only in
\* a trailing dot get the same index key and the same ownership lookup, and
\* no create is planned for the desired endpoint.
C29_TrailingDotSameName ==
    planPhase = "planned" =>
        \A i \in 1..Len(planDesired) :
            \A j \in 1..Len(planCurrent) :
                LET d == planDesired[i]
                    c == planCurrent[j]
                    owned == buildOwnedSet(planOwnerID, planCurrent)
                IN (/\ ~IsOwnershipTXT(c)
                    /\ TrimDot(d.DNSName) = TrimDot(c.DNSName)
                    /\ d.RecordType = c.RecordType)
                   => /\ epKey(d) = epKey(c)
                      /\ (d.DNSName \in owned <=> c.DNSName \in owned)
                      /\ \A k \in 1..Len(planChanges.Create) : planChanges.Create[k] # d

\* The same for the desired endpoints written without a trailing dot.
C29_HoldsWithoutTrailingDot ==
    (\A i \in 1..Len(planDesired) : planDesired[i].DNSName = TrimDot(planDesired[i].DNSName))
        => C29_TrailingDotSameName

(***************************************************************************)
(* pkg/source: DockerSource.Watch and runEventLoop.  The task executing    *)
(* Watch is at "subscribe" before the call of client.Events, at            *)
(* "listening" in the select of runEventLoop, at "waiting" in the select   *)
(* of Watch, and at "returned" after Watch has returned.  The Docker       *)
(* daemon delivers events and breaks the stream at any time; the model is  *)
(* untimed, the time.After channel becomes ready at some later step.       *)
(***************************************************************************)
MaxSubscriptions == 3
MaxNotified == 2

\* A Watch that returns when the event loop has ended.
WatchSelectGivesUp(ctxDone, timerFired) == {"returned"}

\* The select of Watch: the cases that are ready and where each leads.
WatchSelect(ctxDone, timerFired) ==
    (IF ctxDone THEN {"returned"} ELSE {}) \cup (IF timerFired THEN {"subscribe"} ELSE {})

WatchInit ==
    /\ wPc = "subscribe"
    /\ wCancelled = FALSE
    /\ wMsgs = 0
    /\ wStreamErr = FALSE
    /\ wTimerFired = FALSE
    /\ wSubscriptions = 0
    /\ wNotified = 0
    /\ TtlIdle
    /\ MultiIdle
    /\ ConfigIdle
    /\ LateIdle
    /\ BackoffIdle
    /\ ZoneIdle
    /\ PlanIdle
    /\ LoopIdle
    /\ RunIdle

watchRest == <<ttlVars, multiVars, configVars, lateVars, boConfig, boN, boOut, boPhase,
               mzZones, mzName, mzBest, mzPhase, planVars, loopVars, runVars>>

\* runEventLoop up to its select: a new subscription.
Subscribe ==
    /\ wPc = "subscribe"
    /\ wPc' = "listening"
    /\ wMsgs' = 0
    /\ wStreamErr' = FALSE
    /\ wSubscriptions' = Min(wSubscriptions + 1, MaxSubscriptions)
    /\ UNCHANGED <<wCancelled, wTimerFired, wNotified, watchRest>>

\* The daemon reports a container event on the open stream.
StreamEvent ==
    /\ wPc = "listening"
    /\ ~wStreamErr
    /\ wMsgs = 0
    /\ wMsgs' = 1
    /\ UNCHANGED <<wPc, wCancelled, wStreamErr, wTimerFired, wSubscriptions, wNotified, watchRest>>

\* The stream breaks: an error is sent on errs, or errs is closed.
StreamError ==
    /\ wPc = "listening"
    /\ ~wStreamErr
    /\ wStreamErr' = TRUE
    /\ UNCHANGED <<wPc, wCancelled, wMsgs, wTimerFired, wSubscriptions, wNotified, watchRest>>

\* runEventLoop, case <-msgs: the handlers are called.
LoopNotify ==
    /\ wPc = "listening"
    /\ wMsgs > 0
    /\ wMsgs' = wMsgs - 1
    /\ wNotified' = Min(wNotified + 1, MaxNotified)
    /\ UNCHANGED <<wPc, wCancelled, wStreamErr, wTimerFired, wSubscriptions, watchRest>>

\* runEventLoop, case err := <-errs: the loop returns, Watch starts time.After.
LoopStreamError ==
    /\ wPc = "listening"
    /\ wStreamErr
    /\ wPc' = "waiting"
    /\ wTimerFired' = FALSE
    /\ UNCHANGED <<wCancelled, wMsgs, wStreamErr, wSubscriptions, wNotified, watchRest>>

\* runEventLoop, case <-ctx.Done(): the loop returns, Watch starts time.After.
LoopDone ==
    /\ wPc = "listening"
    /\ wCancelled
    /\ wPc' = "waiting"
    /\ wTimerFired' = FALSE
    /\ UNCHANGED <<wCancelled, wMsgs, wStreamErr, wSubscriptions, wNotified, watchRest>>

\* reconnectWait has elapsed.
ReconnectTimerFire ==
    /\ wPc = "waiting"
    /\ ~wTimerFired
    /\ wTimerFired' = TRUE
    /\ UNCHANGED <<wPc, wCancelled, wMsgs, wStreamErr, wSubscriptions, wNotified, watchRest>>

\* Watch, case <-ctx.Done(): return.
WatchReturn ==
    /\ wPc = "waiting"
    /\ "returned" \in WatchSelect(wCancelled, wTimerFired)
    /\ wPc' = "returned"
    /\ UNCHANGED <<wCancelled, wMsgs, wStreamErr, wTimerFired, wSubscriptions, wNotified, watchRest>>

\* Watch, case <-time.After(reconnectWait): the next round of the loop.
WatchReconnect ==
    /\ wPc = "waiting"
    /\ "subscribe" \in WatchSelect(wCancelled, wTimerFired)
    /\ wPc' = "subscribe"
    /\ UNCHANGED <<wCancelled, wMsgs, wStreamErr, wTimerFired, wSubscriptions, wNotified, watchRest>>

\* The caller cancels ctx.
WatchCancel ==
    /\ wPc # "returned"
    /\ ~wCancelled
    /\ wCancelled' = TRUE
    /\ UNCHANGED <<wPc, wMsgs, wStreamErr, wTimerFired, wSubscriptions, wNotified, watchRest>>

WatchNext ==
    \/ Subscribe
    \/ StreamEvent
    \/ StreamError
    \/ LoopNotify
    \/ LoopStreamError
    \/ LoopDone
    \/ ReconnectTimerFire
    \/ WatchReturn
    \/ WatchReconnect
    \/ WatchCancel

WatchSpec == WatchInit /\ [][WatchNext]_vars

\* The task executing Watch takes a step it can take, time passes, and a
\* select that is entered again and again with ctx.Done() ready chooses it
\* at some point (select chooses among the ready cases at random).
WatchFairness ==
    /\ WF_vars(Subscribe)
    /\ WF_vars(LoopStreamError)
    /\ WF_vars(LoopDone)
    /\ WF_vars(ReconnectTimerFire)
    /\ WF_vars(WatchReconnect)
    /\ SF_vars(WatchReturn)

WatchLiveSpec == WatchSpec /\ WatchFairness

\* C30: Watch subscribes again after every stream error as long as ctx is
\* not cancelled, never returns while ctx is live, and returns once ctx has
\* been cancelled.
C30_WatchReconnectsUntilCancelled ==
    /\ [](wPc = "returned" => wCancelled)
    /\ []((wPc = "listening" /\ wStreamErr)
             => <>(wCancelled \/ (wPc = "listening" /\ ~wStreamErr)))
    /\ (wCancelled ~> wPc = "returned")

\* Watch has subscribed again after a stream error and has returned after
\* the cancellation.
C30_Witness ==
    /\ wSubscriptions >= 2
    /\ wCancelled
    /\ wPc = "returned"

(***************************************************************************)
(* Properties of the reconcile cycles over time                            *)
(***************************************************************************)
\* No cycle whose I/O calls succeed would change the zone: the cycles the
\* periodic timer keeps starting have nothing left to do.
CyclesSettled ==
    \A tOrd \in TransferOrders(zone) :
        LET current == ProviderRecords(tOrd)
        IN \A dOrd \in DesiredOrders(srcDesired), cOrd \in CurrentOrders(current) :
               LET changes == Calculate(planOwnerID, srcDesired, current, dOrd, cOrd)
               IN ReachesApply(FALSE, FALSE, changes) =>
                      ProviderApplyChanges(zone, I64(CfgMinTTL), changes, FALSE).rrs = zone

\* C31: if the desired set becomes empty and stays empty and every later
\* cycle succeeds, then eventually the zone holds no record the daemon
\* created and no sidecar the daemon wrote.  While desired stays empty a
\* settled zone stays as it is whatever cycles succeed, so the zone is
\* eventually drained only if every settled zone under an empty desired set
\* is drained.
C31_EmptyDesiredDrainsZone ==
    (srcDesired = <<>> /\ CyclesSettled) => zone \subseteq foreign

(***************************************************************************)
(* The update specification: the RFC2136 provider's ApplyChanges on a      *)
(* change set of update pairs.  As in a change set of Calculate the two    *)
(* endpoints of a pair have the same name and type and no two pairs have   *)
(* the same name; an endpoint is an A record whose target came from a      *)
(* container label, an address or not.                                     *)
(***************************************************************************)
MaxPairs == 2

UpdateNames == {<<"app">>, <<"db">>, <<"web">>}
UpdateTargets == {"1.2.3.4", "5.6.7.8", "not-an-ip"}

UpdateEndpoint(name, target) ==
    [DNSName |-> name, Targets |-> <<target>>, RecordType |-> "A", TTL |-> <<300, 0, 0, 0>>]

UpdateInit ==
    /\ \E names \in SeqsUpTo(UpdateNames, MaxPairs) :
           /\ \A i, j \in 1..Len(names) : names[i] = names[j] => i = j
           /\ \E olds, news \in [1..Len(names) -> UpdateTargets] :
                  /\ \A i \in 1..Len(names) : olds[i] # news[i]
                  /\ upOlds = [i \in 1..Len(names) |-> UpdateEndpoint(names[i], olds[i])]
                  /\ upNews = [i \in 1..Len(names) |-> UpdateEndpoint(names[i], news[i])]
    /\ upMsg = <<>>
    /\ upPhase = "input"
    /\ SteadyIdle
    /\ RaceIdle
    /\ TtlIdle
    /\ MultiIdle
    /\ ConfigIdle
    /\ WatchIdle
    /\ BackoffIdle
    /\ ZoneIdle
    /\ PlanIdle
    /\ LoopIdle
    /\ RunIdle

\* Provider.ApplyChanges up to the exchange: the update section is built.
UpdateBuild ==
    /\ upPhase = "input"
    /\ upMsg' = UpdateMessage(I64(CfgMinTTL),
                              [EmptyChanges EXCEPT !.UpdateOld = upOlds, !.UpdateNew = upNews])
    /\ upPhase' = "done"
    /\ UNCHANGED <<upOlds, upNews, stMinTTL, raceVars, ttlVars, multiVars, configVars, watchVars, boConfig, boN,
                   boOut, boPhase, mzZones, mzName, mzBest, mzPhase, planVars, loopVars, runVars>>

UpdateNext == UpdateBuild

UpdateSpec == UpdateInit /\ [][UpdateNext]_vars

\* The message holds the operation op on the record of the endpoint.
OpInMsg(msg, op, ep) ==
    LET c == endpointToRRs(I64(CfgMinTTL), ep)
    IN /\ ~c.err
       /\ \E q \in 1..Len(msg) : msg[q] = [op |-> op, rr |-> c.rrs[1]]

\* C35: for each update pair the message holds the removal of the old
\* record iff it holds the insertion of the new one: a pair is applied as
\* remove-then-insert or skipped, never reduced to a bare removal.
C35_PairRemovedIffInserted ==
    upPhase = "done" =>
        \A i \in 1..Len(upOlds) :
            OpInMsg(upMsg, "remove", upOlds[i]) <=> OpInMsg(upMsg, "insert", upNews[i])

(***************************************************************************)
(* The steady-state specification: the reconcile cycles of the loop        *)
(* specification with a desired set that does not change, against an       *)
(* RFC2136 provider with a MinTTL setting.                                 *)
(***************************************************************************)
\* Settings of --rfc2136-min-ttl: off, below and above the TTL of 300.
SteadyMinTTLPool == {<<0, 0, 0, 0>>, <<60, 0, 0, 0>>, <<600, 0, 0, 0>>}

SteadyInit ==
    /\ zone \in SUBSET ForeignPool
    /\ foreign = zone
    /\ srcDesired \in SeqsUpTo(LoopDesiredPool, MaxSource)
    /\ ready = FALSE
    /\ lastResult = "none"
    /\ lastNoop = FALSE
    /\ everSucceeded = FALSE
    /\ dryRun = FALSE
    /\ lastCalls = <<>>
    /\ stMinTTL \in SteadyMinTTLPool
    /\ UpdIdle
    /\ RaceIdle
    /\ TtlIdle
    /\ MultiIdle
    /\ ConfigIdle
    /\ WatchIdle
    /\ BackoffIdle
    /\ ZoneIdle
    /\ PlanIdle
    /\ RunIdle

SteadyCycle == ReconcileUnder(stMinTTL)

SteadyNext == SteadyCycle

SteadySpec == SteadyInit /\ [][SteadyNext]_vars

\* Every cycle on the zone as it is plans an empty change set.
PlansNothing ==
    \A tOrd \in TransferOrders(zone) :
        LET current == ProviderRecords(tOrd)
        IN \A dOrd \in DesiredOrders(srcDesired), cOrd \in CurrentOrders(current) :
               IsEmpty(Calculate(planOwnerID, srcDesired, current, dOrd, cOrd))

\* The last cycle called ApplyChanges and succeeded.
AppliedWithSuccess ==
    /\ lastResult = "success"
    /\ Len(lastCalls) = 4

\* C36: with an unchanged desired set, after a cycle that applied its
\* change set with success every later cycle plans an empty change set and
\* does not call ApplyChanges, for every MinTTL setting.
C36_SteadyAfterApply ==
    AppliedWithSuccess => PlansNothing

(***************************************************************************)
(* The sidecar routing specification: zoneFor on a managed name and on the *)
(* name of its ownership record, strings being sequences of characters.    *)
(* The zone lists also hold a zone cut at the ownership label.             *)
(***************************************************************************)
\* ownerPrefix, "external-dns-docker-owner.", by its characters.
ownerPrefixChars ==
    <<"e", "x", "t", "e", "r", "n", "a", "l", "-", "d", "n", "s", "-",
      "d", "o", "c", "k", "e", "r", "-", "o", "w", "n", "e", "r", ".">>

\* ownershipName on a sequence of characters.
ownershipNameChars(dnsName) == ownerPrefixChars \o dnsName

SidecarZonePool == ZonePool \cup {ownerPrefixChars \o <<"a">>}

SidecarInit ==
    /\ mzZones \in {NewMulti(configs) : configs \in SeqsUpTo(SidecarZonePool, MaxZones)}
    /\ mzName \in SeqsUpTo(NameAlphabet, MaxNameLen)
    /\ mzBest = 0
    /\ mzPhase = "input"
    /\ BackoffIdle
    /\ MoreIdle
    /\ PlanIdle
    /\ LoopIdle
    /\ RunIdle

SidecarSpec == SidecarInit /\ [][ZoneNext]_vars

\* The entry the sidecar of the name looked up is routed to, 0 for none.
SidecarBest == zoneFor(mzZones, ownershipNameChars(mzName))

\* No configured zone is the sidecar name of the name looked up.
NoZoneAtSidecar ==
    \A i \in 1..Len(mzZones) :
        Stripped(mzZones[i].zone) # Stripped(ownershipNameChars(mzName))

\* C37 as stated: for every zone configuration and every name N that
\* matches some zone, N and "external-dns-docker-owner."+N are routed to the
\* same sub-provider.
C37_SidecarRoutedWithRecordAnyZones ==
    (mzPhase = "done" /\ MatchingEntries # {}) => SidecarBest = mzBest

\* C37 amended: the same for every zone configuration in which no zone is
\* the sidecar name "external-dns-docker-owner."+N itself.
C37_SidecarRoutedWithRecord ==
    (mzPhase = "done" /\ MatchingEntries # {} /\ NoZoneAtSidecar) => SidecarBest = mzBest

\* The name b.a and its sidecar are both routed to the second of the zones
\* a and b.a.
C37_Witness ==
    /\ mzPhase = "done"
    /\ mzName = <<"b", ".", "a">>
    /\ Len(mzZones) = 2
    /\ mzZones[1].zone = <<"a", ".">>
    /\ mzZones[2].zone = <<"b", ".", "a", ".">>
    /\ mzBest = 2
    /\ SidecarBest = 2

(***************************************************************************)
(* The handler specification: main starts Watch in a task of its own and   *)
(* then calls Controller.Run, which registers its handler with the source. *)
(* AddEventHandler stores the slice header of s.handlers and notify loads  *)
(* it, both without a lock; a load that overlaps a store is a data race    *)
(* and may see the old slice, the new slice or a torn header.              *)
(***************************************************************************)
MaxEvents == 3

\* What the load of s.handlers by notify yields: the number of handlers, or
\* after a data race any of the old slice, the new slice and a torn header.
\* rcSeen holds the length of that slice; its kind is "none" before the
\* first load and "torn" for a header that is neither the old nor the new one.
LoadHandlers(handlers, raced) ==
    IF raced
    THEN {[kind |-> "torn", len |-> 0]}
             \cup {[kind |-> "slice", len |-> n] : n \in {m \in 0..(handlers + 1) : m >= handlers - 1}}
    ELSE {[kind |-> "slice", len |-> handlers]}

HandlerInit ==
    /\ rcMain = "start"
    /\ rcWatch = "none"
    /\ rcHandlers = 0
    /\ rcPending = 0
    /\ rcEvents = 0
    /\ rcOverlap = FALSE
    /\ rcSeen = [kind |-> "none", len |-> 0]
    /\ UpdIdle
    /\ SteadyIdle
    /\ TtlIdle
    /\ MultiIdle
    /\ ConfigIdle
    /\ WatchIdle
    /\ BackoffIdle
    /\ ZoneIdle
    /\ PlanIdle
    /\ LoopIdle
    /\ RunIdle

handlerRest == <<updVars, stMinTTL, ttlVars, multiVars, configVars, watchVars, boConfig, boN,
                 boOut, boPhase, mzZones, mzName, mzBest, mzPhase, planVars, loopVars, runVars>>

\* main: go func() { src.Watch(ctx) }()
MainStartsWatch ==
    /\ rcMain = "start"
    /\ rcMain' = "spawned"
    /\ rcWatch' = "subscribe"
    /\ UNCHANGED <<rcHandlers, rcPending, rcEvents, rcOverlap, rcSeen, handlerRest>>

\* main: ctrl.Run(ctx) up to AddEventHandler, which begins to store the
\* appended slice in s.handlers.
AppendBegins ==
    /\ rcMain = "spawned"
    /\ rcMain' = "appending"
    /\ rcOverlap' = (rcWatch = "loading")
    /\ UNCHANGED <<rcWatch, rcHandlers, rcPending, rcEvents, rcSeen, handlerRest>>

\* AddEventHandler: the store of the slice header is complete.
AppendEnds ==
    /\ rcMain = "appending"
    /\ rcMain' = "registered"
    /\ rcHandlers' = rcHandlers + 1
    /\ UNCHANGED <<rcWatch, rcPending, rcEvents, rcOverlap, rcSeen, handlerRest>>

\* Watch: runEventLoop subscribes to the event stream.
WatchSubscribes ==
    /\ rcWatch = "subscribe"
    /\ rcWatch' = "listening"
    /\ UNCHANGED <<rcMain, rcHandlers, rcPending, rcEvents, rcOverlap, rcSeen, handlerRest>>

\* The daemon reports a container event.
DockerEvent ==
    /\ rcWatch \in {"listening", "loading", "calling"}
    /\ rcEvents < MaxEvents
    /\ rcPending' = rcPending + 1
    /\ rcEvents' = rcEvents + 1
    /\ UNCHANGED <<rcMain, rcWatch, rcHandlers, rcOverlap, rcSeen, handlerRest>>

\* runEventLoop, case <-msgs: notify begins to load s.handlers for its range.
NotifyLoadBegins ==
    /\ rcWatch = "listening"
    /\ rcPending > 0
    /\ rcPending' = rcPending - 1
    /\ rcWatch' = "loading"
    /\ rcOverlap' = (rcMain = "appending")
    /\ UNCHANGED <<rcMain, rcHandlers, rcEvents, rcSeen, handlerRest>>

\* notify: the load is complete, the range has its slice.
NotifyLoadEnds ==
    /\ rcWatch = "loading"
    /\ rcSeen' \in LoadHandlers(rcHandlers, rcOverlap)
    /\ rcWatch' = "calling"
    /\ rcOverlap' = FALSE
    /\ UNCHANGED <<rcMain, rcHandlers, rcPending, rcEvents, handlerRest>>

\* notify: the handlers of the slice have been called.
NotifyReturns ==
    /\ rcWatch = "calling"
    /\ rcWatch' = "listening"
    /\ UNCHANGED <<rcMain, rcHandlers, rcPending, rcEvents, rcOverlap, rcSeen, handlerRest>>

HandlerNext ==
    \/ MainStartsWatch
    \/ AppendBegins
    \/ AppendEnds
    \/ WatchSubscribes
    \/ DockerEvent
    \/ NotifyLoadBegins
    \/ NotifyLoadEnds
    \/ NotifyReturns

HandlerSpec == HandlerInit /\ [][HandlerNext]_vars

\* C39: notify never reads the handler list while AddEventHandler is
\* appending to it.
C39_NoConcurrentHandlerAccess ==
    ~(rcMain = "appending" /\ rcWatch = "loading")


====
